---- MODULE Spec2Model ----
(***************************************************************************)
(* A model of the proxym proxy decision engine: Proxy and ProxyStats,      *)
(* the rotation and selection strategies with their filters,               *)
(* ResourceConfig with its domain matching, and ProxyManagerImpl.          *)
(*                                                                         *)
(* The specifications share the variables:                                 *)
(*   Spec       non-overlapping calls on one manager, one action per call  *)
(*   SpecStats  goroutines racing in Proxy.Update, one action per memory   *)
(*              access or lock operation                                   *)
(*   SpecConc   goroutines racing in GetNextProxy, one action per          *)
(*              lock-protected access                                      *)
(*   SpecPool   goroutines racing in AddProxies and GetProxies             *)
(*   SpecRR     goroutines racing in RoundRobinSelect.Select on a fixed    *)
(*              pool, one action per memory access or lock operation       *)
(*   SpecRRGrow the same calls while the pool grows and proxies become     *)
(*              active or disabled                                         *)
(*   SpecFilter one FilteredSelectProvider's GetProxies, called on its own *)
(*   SpecNewResource                                                       *)
(*              CompareDomain on one resource built by NewResourceConfig   *)
(*              with either value of its normalizeDomain flag              *)
(*   SpecRace   goroutines racing in GetNextProxy and AddProxies           *)
(*   SpecConcGlobal                                                        *)
(*              SpecConc on a manager without resources                    *)
(*   SpecTransport                                                         *)
(*              goroutines sending requests through one ProxyTransport     *)
(*   SpecLocks  goroutines calling the public operations, one action per   *)
(*              lock operation; SpecLocksFair adds fair scheduling         *)
(*   SpecSelect, SpecRotation, SpecDomain                                  *)
(*              one selection strategy, one rotation strategy and one      *)
(*              resource's CompareDomain, each called on its own           *)
(***************************************************************************)
EXTENDS Integers, Sequences, FiniteSets, TLC

VARIABLES
    proxies,          \* ProxyManagerImpl.proxies: the global pool
    resources,        \* ProxyManagerImpl.resources: resource ids in insertion order
    lastUsed,         \* ProxyManagerImpl.lastUsed: a proxy or Nil
    rotationStrategy, \* ProxyManagerImpl.rotationStrategy
    selectStrategy,   \* ProxyManagerImpl.selectStrategy
    rcProxies,        \* ResourceConfig.proxies, per resource
    index,            \* RoundRobinSelect.index, per strategy owner
    isActive,         \* Proxy.isActive, per proxy
    isDisabled,       \* Proxy.isDisabled, per proxy
    totalRequests,    \* ProxyStats.totalRequests, per proxy
    successCount,     \* ProxyStats.successCount, per proxy
    errorCount,       \* ProxyStats.errorCount, per proxy
    statsLastUsed,    \* ProxyStats.lastUsed, per proxy: "zero" or "now"
    statsMu,          \* ProxyStats.mu, per proxy: the goroutine holding it, or Free
    pc,               \* per goroutine: its position in the call it is running
    frame,            \* per goroutine: the locals of the call it is running
    issued,           \* history: per proxy, the Update calls issued so far
    history,          \* history: what the calls observed so far returned, in order
    rwmu,             \* per mutex: its writer and its readers
    ret               \* the last completed call and what it returned

vars == << proxies, resources, lastUsed, rotationStrategy, selectStrategy,
           rcProxies, index, isActive, isDisabled, totalRequests,
           successCount, errorCount, statsLastUsed, statsMu, pc, frame,
           issued, history, rwmu, ret >>

----------------------------------------------------------------------------
(* Bounds of the model *)

\* the size of the manager's state: the entries of all pools, the proxies
\* disabled and the Update calls issued, together
MaxSize == 4
\* the number of Update calls the racing goroutines issue, over all proxies
MaxUpdates == 3
\* the number of Update calls made while GetNextProxy calls race
MaxConcUpdates == 1
\* the number of Select calls made on one selection strategy
MaxSelects == 6
\* the number of sub-strategies of a composite rotation strategy
MaxStrategies == 2
\* the number of AddProxies and GetProxies calls the racing goroutines make
MaxPoolCalls == 3
\* the number of Select calls the racing goroutines make on one strategy
MaxRRCalls == 3
\* the number of calls the goroutines make while the locks are followed
MaxLockCalls == 2
\* the number of requests sent through one ProxyTransport
MaxRequests == 3
\* the number of filters of a FilteredSelectProvider
MaxFilters == 2
\* the entries of the pool a round-robin strategy draws from while it grows
\* and the proxies of it marked active or disabled, together
MaxRRPool == 3

----------------------------------------------------------------------------
(* The universe *)

Nil == "nil"
Free == "free"

Proxies == {"A", "B", "C"}
Threads == {"g1", "g2"}
ResIds == {"R1", "R2"}
Manager == "pm"
\* the providers a selection strategy can be bound to
Owners == {Manager} \cup ResIds

\* RoundRobinSelect.mu of the manager's selection strategy
SelectMu == "selectStrategy.mu"
\* the locks: ProxyManagerImpl.pMu and each ResourceConfig.mu, guarding a
\* pool, and the mutex of the selection strategy
Mutexes == Owners \cup {SelectMu}
\* a sync.RWMutex nobody holds
Unlocked == [writer |-> Nil, readers |-> {}]

RECURSIVE SumOver(_, _)
SumOver(f, S) ==
    IF S = {} THEN 0
    ELSE LET x == CHOOSE y \in S : TRUE
         IN f[x] + SumOver(f, S \ {x})

----------------------------------------------------------------------------
(* Strings: a Go string is a sequence of one-character strings *)

EmptyStr == << >>

HasPrefix(s, prefix) ==
    /\ Len(prefix) <= Len(s)
    /\ SubSeq(s, 1, Len(prefix)) = prefix

HasSuffix(s, suffix) ==
    /\ Len(suffix) <= Len(s)
    /\ SubSeq(s, Len(s) - Len(suffix) + 1, Len(s)) = suffix

TrimPrefix(s, prefix) ==
    IF HasPrefix(s, prefix) THEN SubSeq(s, Len(prefix) + 1, Len(s)) ELSE s

RECURSIVE TrimLeft(_, _)
TrimLeft(s, cutset) ==
    IF s # EmptyStr /\ Head(s) \in cutset THEN TrimLeft(Tail(s), cutset) ELSE s

RECURSIVE TrimRight(_, _)
TrimRight(s, cutset) ==
    IF s # EmptyStr /\ s[Len(s)] \in cutset
    THEN TrimRight(SubSeq(s, 1, Len(s) - 1), cutset)
    ELSE s

\* strings.Trim
Trim(s, cutset) == TrimRight(TrimLeft(s, cutset), cutset)

\* the least i with s[i] = c, or 0
Index(s, c) ==
    IF \E i \in 1..Len(s) : s[i] = c
    THEN CHOOSE i \in 1..Len(s) : s[i] = c /\ \A j \in 1..(i - 1) : s[j] # c
    ELSE 0

\* the greatest i with s[i] = c, or 0
LastIndex(s, c) ==
    IF \E i \in 1..Len(s) : s[i] = c
    THEN CHOOSE i \in 1..Len(s) : s[i] = c /\ \A j \in (i + 1)..Len(s) : s[j] # c
    ELSE 0

LowerLetters == << "a", "b", "c", "d", "e", "f", "g", "h", "i", "j", "k", "l", "m",
                   "n", "o", "p", "q", "r", "s", "t", "u", "v", "w", "x", "y", "z" >>
UpperLetters == << "A", "B", "C", "D", "E", "F", "G", "H", "I", "J", "K", "L", "M",
                   "N", "O", "P", "Q", "R", "S", "T", "U", "V", "W", "X", "Y", "Z" >>
Digits == { "0", "1", "2", "3", "4", "5", "6", "7", "8", "9" }

IsLetter(c) == \E i \in 1..Len(LowerLetters) : c = LowerLetters[i] \/ c = UpperLetters[i]

ToLowerChar(c) ==
    IF \E i \in 1..Len(UpperLetters) : c = UpperLetters[i]
    THEN LowerLetters[CHOOSE i \in 1..Len(UpperLetters) : c = UpperLetters[i]]
    ELSE c

\* strings.ToLower
ToLower(s) == [i \in 1..Len(s) |-> ToLowerChar(s[i])]

----------------------------------------------------------------------------
(* net/url, as far as ResourceConfig.getDomainFromURL uses it: whether     *)
(* url.Parse fails and what URL.Hostname() returns, for strings of         *)
(* letters, digits, ".", "-", ":", "/" and " ".                            *)

\* url.getScheme: 0 = no scheme, -1 = "missing protocol scheme", else the
\* position of the colon ending the scheme
RECURSIVE getScheme(_, _)
getScheme(rawURL, i) ==
    IF i > Len(rawURL) THEN 0
    ELSE IF IsLetter(rawURL[i]) THEN getScheme(rawURL, i + 1)
    ELSE IF rawURL[i] \in Digits \cup {"+", "-", "."}
         THEN IF i = 1 THEN 0 ELSE getScheme(rawURL, i + 1)
    ELSE IF rawURL[i] = ":" THEN IF i = 1 THEN -1 ELSE i
    ELSE 0

\* url.validOptionalPort
validOptionalPort(port) ==
    \/ port = EmptyStr
    \/ /\ port[1] = ":"
       /\ \A i \in 2..Len(port) : port[i] \in Digits

\* url.parseHost (no brackets, no escapes): the host is rejected for a bad
\* port or a space
parseHostFails(host) ==
    \/ /\ LastIndex(host, ":") # 0
       /\ ~validOptionalPort(SubSeq(host, LastIndex(host, ":"), Len(host)))
    \/ \E i \in 1..Len(host) : host[i] = " "

\* URL.Hostname: the host without a valid port
stripPort(host) ==
    IF /\ LastIndex(host, ":") # 0
       /\ validOptionalPort(SubSeq(host, LastIndex(host, ":"), Len(host)))
    THEN SubSeq(host, 1, LastIndex(host, ":") - 1)
    ELSE host

\* url.Parse(urlStr) followed by URL.Hostname()
urlParse(urlStr) ==
    LET colon == getScheme(urlStr, 1)
        hasScheme == colon > 0
        rest == IF hasScheme THEN SubSeq(urlStr, colon + 1, Len(urlStr)) ELSE urlStr
        segment == IF Index(rest, "/") = 0 THEN rest
                   ELSE SubSeq(rest, 1, Index(rest, "/") - 1)
        afterSlashes == SubSeq(rest, 3, Len(rest))
        authority == IF Index(afterSlashes, "/") = 0 THEN afterSlashes
                     ELSE SubSeq(afterSlashes, 1, Index(afterSlashes, "/") - 1)
    IN  IF colon = -1 THEN [err |-> TRUE, hostname |-> EmptyStr]
        ELSE IF ~HasPrefix(rest, << "/" >>) /\ hasScheme
             THEN [err |-> FALSE, hostname |-> EmptyStr]
        ELSE IF ~HasPrefix(rest, << "/" >>) /\ Index(segment, ":") # 0
             THEN [err |-> TRUE, hostname |-> EmptyStr]
        ELSE IF /\ HasPrefix(rest, << "/", "/" >>)
                /\ (hasScheme \/ ~HasPrefix(rest, << "/", "/", "/" >>))
             THEN IF parseHostFails(authority)
                  THEN [err |-> TRUE, hostname |-> EmptyStr]
                  ELSE [err |-> FALSE, hostname |-> stripPort(authority)]
        ELSE [err |-> FALSE, hostname |-> EmptyStr]

----------------------------------------------------------------------------
(* ResourceConfig: domain normalization *)

HttpPrefix == << "h", "t", "t", "p", ":", "/", "/" >>
HttpsPrefix == << "h", "t", "t", "p", "s", ":", "/", "/" >>
WwwPrefix == << "w", "w", "w", "." >>

\* ResourceConfig.trimDomain
trimDomain(domain) ==
    Trim(TrimPrefix(TrimPrefix(TrimPrefix(domain, HttpPrefix), HttpsPrefix),
                    WwwPrefix),
         {"/", " "})

\* ResourceConfig.getDomainFromURL
getDomainFromURL(urlStr) ==
    LET u == urlParse(urlStr)
    IN  IF u.err \/ u.hostname = EmptyStr
        THEN trimDomain(urlStr)
        ELSE trimDomain(u.hostname)

\* ResourceConfig.normalizeDomain
normalizeDomain(domain) ==
    IF domain = EmptyStr THEN EmptyStr ELSE ToLower(getDomainFromURL(domain))

\* NewResourceConfig(normalizeDomain, WithDomain(domain),
\* WithIgnoreSubdomains(ignore)): the domain as stored and the flag
NewResourceConfig(normalize, domain, ignore) ==
    [domain |-> IF normalize THEN normalizeDomain(domain) ELSE domain,
     notIgnoreSubdomains |-> ~ignore]

\* ResourceConfig.CompareDomain
CompareDomain_ExactOnly(rc, domain) ==
    LET rcDomain == rc.domain
        normalized == normalizeDomain(domain)
    IN  normalized = rcDomain
CompareDomain(rc, domain) ==
    LET rcDomain == rc.domain
        normalized == normalizeDomain(domain)
    IN  \/ normalized = rcDomain
        \/ /\ ~rc.notIgnoreSubdomains
           /\ HasSuffix(normalized, << "." >> \o rcDomain)

----------------------------------------------------------------------------
(* Errors: an error is the chain of the sentinels it wraps, outermost first *)

ErrProxyNotAvailable == "proxy not available"
ErrResourceNotFound == "resource not found"
ErrEmptyProxyList == "empty proxy list in proxy manager"
ErrFailedSelectProxy == "failed select proxy in select strategy"

NoErr == << >>

\* errors.Is
ErrorsIs(err, target) == \E i \in 1..Len(err) : err[i] = target

\* ProxyManagerImpl.proxyNotAvailable
proxyNotAvailable_NoWrap(err) == << ErrProxyNotAvailable >>
proxyNotAvailable(err) == << ErrProxyNotAvailable >> \o err

----------------------------------------------------------------------------
(* Proxy and ProxyStats *)

\* NewProxy: both flags false, a fresh zeroed ProxyStats
NewProxyFlags == [p \in Proxies |-> FALSE]
NewProxyStats == [p \in Proxies |-> 0]

\* the outcome test of ProxyStats.Update: response != nil && err == nil
IsSuccess_IgnoresResponse(response, err) == err = Nil
IsSuccess(response, err) == response # Nil /\ err = Nil

Responses == {Nil, "resp"}
Errs == {Nil, "err"}

\* ProxyStats.mu.Lock() can be taken
StatsMuCanLock_NoExclusion(p) == TRUE
StatsMuCanLock(p) == statsMu[p] = Free

idleFrame == [op |-> "none"]

statsVars == << totalRequests, successCount, errorCount, statsLastUsed >>
managerVars == << proxies, resources, lastUsed, rotationStrategy,
                  selectStrategy, rcProxies, index >>
flagVars == << isActive, isDisabled >>

(* Proxy.Update, step by step.  Proxy.Stats() returns the stats pointer,   *)
(* which is never reassigned; ProxyStats.Update then runs under s.mu.      *)
UpdateCall(g, p, response, err) ==
    /\ pc[g] = "idle"
    /\ SumOver([q \in Proxies |-> issued[q].success + issued[q].error],
               Proxies) < MaxUpdates
    /\ pc' = [pc EXCEPT ![g] = "upd_lock"]
    /\ frame' = [frame EXCEPT ![g] =
                    [op |-> "Update", proxy |-> p,
                     success |-> IsSuccess(response, err), tmp |-> 0]]
    /\ issued' = [issued EXCEPT ![p] =
                    IF response # Nil /\ err = Nil
                    THEN [@ EXCEPT !.success = @ + 1]
                    ELSE [@ EXCEPT !.error = @ + 1]]
    /\ UNCHANGED << managerVars, flagVars, statsVars, statsMu, history, rwmu, ret >>

\* s.mu.Lock()
UpdateLock(g) ==
    /\ pc[g] = "upd_lock"
    /\ StatsMuCanLock(frame[g].proxy)
    /\ statsMu' = [statsMu EXCEPT ![frame[g].proxy] = g]
    /\ pc' = [pc EXCEPT ![g] = "upd_total_load"]
    /\ UNCHANGED << managerVars, flagVars, statsVars, frame, issued, history, rwmu, ret >>

\* s.totalRequests++ : the load
UpdateTotalLoad(g) ==
    /\ pc[g] = "upd_total_load"
    /\ frame' = [frame EXCEPT ![g].tmp = totalRequests[frame[g].proxy]]
    /\ pc' = [pc EXCEPT ![g] = "upd_total_store"]
    /\ UNCHANGED << managerVars, flagVars, statsVars, statsMu, issued, history, rwmu, ret >>

\* s.totalRequests++ : the store
UpdateTotalStore(g) ==
    /\ pc[g] = "upd_total_store"
    /\ totalRequests' = [totalRequests EXCEPT ![frame[g].proxy] = frame[g].tmp + 1]
    /\ pc' = [pc EXCEPT ![g] = "upd_count_load"]
    /\ UNCHANGED << managerVars, flagVars, successCount, errorCount,
                    statsLastUsed, statsMu, frame, issued, history, rwmu, ret >>

\* s.successCount++ or s.errorCount++ : the load
UpdateCountLoad(g) ==
    /\ pc[g] = "upd_count_load"
    /\ frame' = [frame EXCEPT ![g].tmp =
                    IF frame[g].success THEN successCount[frame[g].proxy]
                    ELSE errorCount[frame[g].proxy]]
    /\ pc' = [pc EXCEPT ![g] = "upd_count_store"]
    /\ UNCHANGED << managerVars, flagVars, statsVars, statsMu, issued, history, rwmu, ret >>

\* s.successCount++ or s.errorCount++ : the store
UpdateCountStore(g) ==
    /\ pc[g] = "upd_count_store"
    /\ IF frame[g].success
       THEN /\ successCount' = [successCount EXCEPT ![frame[g].proxy] = frame[g].tmp + 1]
            /\ UNCHANGED errorCount
       ELSE /\ errorCount' = [errorCount EXCEPT ![frame[g].proxy] = frame[g].tmp + 1]
            /\ UNCHANGED successCount
    /\ pc' = [pc EXCEPT ![g] = "upd_unlock"]
    /\ UNCHANGED << managerVars, flagVars, totalRequests, statsLastUsed,
                    statsMu, frame, issued, history, rwmu, ret >>

\* s.lastUsed = time.Now(), then the deferred s.mu.Unlock() and the return
UpdateUnlock(g) ==
    /\ pc[g] = "upd_unlock"
    /\ statsLastUsed' = [statsLastUsed EXCEPT ![frame[g].proxy] = "now"]
    /\ statsMu' = [statsMu EXCEPT ![frame[g].proxy] = Free]
    /\ pc' = [pc EXCEPT ![g] = "idle"]
    /\ frame' = [frame EXCEPT ![g] = idleFrame]
    /\ UNCHANGED << managerVars, flagVars, totalRequests, successCount,
                    errorCount, issued, history, rwmu, ret >>

\* NewRoundRobinSelect: the index is set to -1
NewIndex_Zero == [o \in Owners |-> 0]
NewIndex == [o \in Owners |-> -1]

\* WithResourceProxies of the two resources of the model
NewRcProxies == [R1 |-> << "C" >>, R2 |-> << >>]

NoRet == [op |-> "none"]

InitProxyState ==
    /\ isActive = NewProxyFlags
    /\ isDisabled = NewProxyFlags
    /\ totalRequests = NewProxyStats
    /\ successCount = NewProxyStats
    /\ errorCount = NewProxyStats
    /\ statsLastUsed = [p \in Proxies |-> "zero"]
    /\ statsMu = [p \in Proxies |-> Free]
    /\ issued = [p \in Proxies |-> [success |-> 0, error |-> 0]]

InitThreads ==
    /\ pc = [g \in Threads |-> "idle"]
    /\ frame = [g \in Threads |-> idleFrame]
    /\ history = << >>
    /\ rwmu = [m \in Mutexes |-> Unlocked]
    /\ ret = NoRet

InitStats ==
    /\ InitProxyState
    /\ InitThreads
    /\ proxies = << >>
    /\ resources = << >>
    /\ lastUsed = Nil
    /\ rotationStrategy = Nil
    /\ selectStrategy = Nil
    /\ rcProxies = NewRcProxies
    /\ index = NewIndex

NextStats ==
    \/ \E g \in Threads, p \in Proxies, response \in Responses, err \in Errs :
          UpdateCall(g, p, response, err)
    \/ \E g \in Threads : UpdateLock(g)
    \/ \E g \in Threads : UpdateTotalLoad(g)
    \/ \E g \in Threads : UpdateTotalStore(g)
    \/ \E g \in Threads : UpdateCountLoad(g)
    \/ \E g \in Threads : UpdateCountStore(g)
    \/ \E g \in Threads : UpdateUnlock(g)

SpecStats == InitStats /\ [][NextStats]_vars

----------------------------------------------------------------------------
(* Rotation strategies *)

OnlyEnabledRotation == [kind |-> "OnlyEnabled"]
NewErrorThresholdRotation(threshold) ==
    [kind |-> "ErrorThreshold", threshold |-> threshold]
NewRequestLimitedRotation(limit) == [kind |-> "RequestLimited", limit |-> limit]
RoundRobinRotation == [kind |-> "RoundRobin"]
NewCompositeRotationStrategy(logic, strategies) ==
    [kind |-> "Composite", logic |-> logic, strategies |-> strategies]

RotationLogicAND == "AND"
RotationLogicOR == "OR"

\* rotations.DefaultRotationStrategy
DefaultRotationStrategy_OnlyEnabled ==
    NewCompositeRotationStrategy(RotationLogicOR, << OnlyEnabledRotation >>)
DefaultRotationStrategy ==
    NewCompositeRotationStrategy(RotationLogicOR,
        << OnlyEnabledRotation, NewErrorThresholdRotation(1) >>)

RECURSIVE ShouldRotate(_, _)
RECURSIVE CompositeLoop(_, _, _)

\* the loop of CompositeRotation.ShouldRotate from the i-th sub-strategy on
CompositeLoop_TrueAtEnd(c, i, proxy) ==
    IF i > Len(c.strategies) THEN TRUE
    ELSE LET result == ShouldRotate(c.strategies[i], proxy)
         IN  IF c.logic = RotationLogicOR /\ result THEN TRUE
             ELSE IF c.logic = RotationLogicAND /\ ~result THEN FALSE
             ELSE CompositeLoop(c, i + 1, proxy)
CompositeLoop(c, i, proxy) ==
    IF i > Len(c.strategies) THEN c.logic = RotationLogicAND
    ELSE LET result == ShouldRotate(c.strategies[i], proxy)
         IN  IF c.logic = RotationLogicOR /\ result THEN TRUE
             ELSE IF c.logic = RotationLogicAND /\ ~result THEN FALSE
             ELSE CompositeLoop(c, i + 1, proxy)

\* RotationStrategy.ShouldRotate of each implementation
ShouldRotate(strategy, proxy) ==
    CASE strategy.kind = "OnlyEnabled" -> isDisabled[proxy]
      [] strategy.kind = "ErrorThreshold" -> errorCount[proxy] >= strategy.threshold
      [] strategy.kind = "RequestLimited" -> totalRequests[proxy] >= strategy.limit
      [] strategy.kind = "RoundRobin" -> TRUE
      [] strategy.kind = "Composite" ->
            IF Len(strategy.strategies) = 0 THEN FALSE
            ELSE CompositeLoop(strategy, 1, proxy)

----------------------------------------------------------------------------
(* Selection strategies, providers and filters *)

\* ProxyManagerImpl.GetProxies and ResourceConfig.GetProxies: a copy
GetProxies(owner) == IF owner = Manager THEN proxies ELSE rcProxies[owner]

\* RemoveActiveProxyFilter.Filter
RemoveActiveProxyFilter_KeepsAll(ps) == ps
RemoveActiveProxyFilter(ps) == SelectSeq(ps, LAMBDA p : ~isActive[p])

\* RemoveDisabledFilter.Filter
RemoveDisabledFilter_KeepsAll(ps) == ps
RemoveDisabledFilter(ps) == SelectSeq(ps, LAMBDA p : ~isDisabled[p])

Filter_RemoveActiveOnly(name, ps) == RemoveActiveProxyFilter(ps)
Filter(name, ps) ==
    IF name = "RemoveActiveProxyFilter" THEN RemoveActiveProxyFilter(ps)
    ELSE RemoveDisabledFilter(ps)

\* the loop of FilteredSelectProvider.GetProxies from the i-th filter on
RECURSIVE FilterLoop(_, _, _)
FilterLoop(filters, i, ps) ==
    IF i > Len(filters) THEN ps
    ELSE LET filtered == Filter(filters[i], ps)
         IN  IF Len(filtered) = 0 THEN filtered
             ELSE FilterLoop(filters, i + 1, filtered)

\* FilteredSelectProvider.GetProxies
FilteredGetProxies(owner, filters) == FilterLoop(filters, 1, GetProxies(owner))

NewRandomSelect(filters) == [kind |-> "Random", filters |-> filters]
NewRoundRobinSelect(filters) == [kind |-> "RoundRobin", filters |-> filters]

\* selects.DefaultSelectStrategy
DefaultSelectStrategy ==
    NewRandomSelect(<< "RemoveActiveProxyFilter", "RemoveDisabledFilter" >>)

\* RandomSelect.Select and RoundRobinSelect.Select on the strategy bound to
\* owner: the outcomes the call can have, each with the cursor it leaves
Select_IgnoresFilters(owner, strategy) ==
    LET ps == GetProxies(owner)
        next == (index[owner] + 1) % Len(ps)
    IN  IF Len(ps) = 0
        THEN { [proxy |-> Nil, err |-> << ErrFailedSelectProxy >>,
                index |-> index[owner]] }
        ELSE IF strategy.kind = "Random"
        THEN { [proxy |-> ps[i], err |-> NoErr, index |-> index[owner]] :
                 i \in 1..Len(ps) }
        ELSE { [proxy |-> ps[next + 1], err |-> NoErr, index |-> next] }
Select(owner, strategy) ==
    LET ps == FilteredGetProxies(owner, strategy.filters)
        next == (index[owner] + 1) % Len(ps)
    IN  IF Len(ps) = 0
        THEN { [proxy |-> Nil, err |-> << ErrFailedSelectProxy >>,
                index |-> index[owner]] }
        ELSE IF strategy.kind = "Random"
        THEN { [proxy |-> ps[i], err |-> NoErr, index |-> index[owner]] :
                 i \in 1..Len(ps) }
        ELSE { [proxy |-> ps[next + 1], err |-> NoErr, index |-> next] }

----------------------------------------------------------------------------
(* The resources of the model *)

ACom == << "a", ".", "c", "o", "m" >>
BCom == << "b", ".", "c", "o", "m" >>
XACom == << "x", ".", "a", ".", "c", "o", "m" >>
HttpsWwwACom == << "h", "t", "t", "p", "s", ":", "/", "/",
                   "w", "w", "w", ".", "A", ".", "c", "o", "m", "/" >>

\* the domains GetNextProxy and AddResourceProxies are called with
Domains == {ACom, BCom, XACom}

\* R1: WithDomain("a.com"), subdomains included, the default strategies,
\*     WithResourceProxies(C)
\* R2: WithDomain("https://www.A.com/") normalized, WithIgnoreSubdomains(false),
\*     RoundRobinRotation and an unfiltered RoundRobinSelect, no proxies
rc ==
    [R1 |-> NewResourceConfig(TRUE, ACom, TRUE),
     R2 |-> NewResourceConfig(TRUE, HttpsWwwACom, FALSE)]

rcRotationStrategy ==
    [R1 |-> DefaultRotationStrategy, R2 |-> RoundRobinRotation]

rcSelectStrategy ==
    [R1 |-> DefaultSelectStrategy, R2 |-> NewRoundRobinSelect(<< >>)]

\* CompareDomain of each resource on each domain of the model
Matches == [r \in ResIds |-> [d \in Domains |-> CompareDomain(rc[r], d)]]

----------------------------------------------------------------------------
(* ProxyManagerImpl, one action per call *)

\* the loop of getResourceByDomain from the i-th resource on
RECURSIVE ResourceLoop(_, _)
ResourceLoop(i, domain) ==
    IF i > Len(resources)
    THEN [resource |-> Nil, err |-> << ErrResourceNotFound >>]
    ELSE IF Matches[resources[i]][domain]
         THEN [resource |-> resources[i], err |-> NoErr]
         ELSE ResourceLoop(i + 1, domain)

\* a getResourceByDomain that returns the last matching resource
getResourceByDomain_LastMatch(domain) ==
    LET matching == { i \in 1..Len(resources) : Matches[resources[i]][domain] }
    IN  IF matching = {} THEN [resource |-> Nil, err |-> << ErrResourceNotFound >>]
        ELSE [resource |-> resources[CHOOSE i \in matching : \A j \in matching : j <= i],
              err |-> NoErr]

\* ProxyManagerImpl.getResourceByDomain
getResourceByDomain(domain) == ResourceLoop(1, domain)

\* the rotation and the selection strategy GetNextProxy consults in a scope
ApplicableRotation_AlwaysGlobal(owner) == rotationStrategy
ApplicableRotation(owner) ==
    IF owner = Manager THEN rotationStrategy ELSE rcRotationStrategy[owner]
ApplicableSelect(owner) ==
    IF owner = Manager THEN selectStrategy ELSE rcSelectStrategy[owner]

\* GetNextProxy's first test: both the pool and the resource list are empty
NothingConfigured_Skipped == FALSE
NothingConfigured_NoProxyAnywhere ==
    /\ Len(proxies) = 0
    /\ \A i \in 1..Len(resources) : Len(rcProxies[resources[i]]) = 0
NothingConfigured == Len(proxies) = 0 /\ Len(resources) = 0

\* lastUsed.deactivate(), when lastUsed is not nil
Deactivate_Skipped(flags, last) == flags
Deactivate(flags, last) ==
    IF last # Nil THEN [flags EXCEPT ![last] = FALSE] ELSE flags

\* current.activate()
Activate_Skipped(flags, current) == flags
Activate(flags, current) == [flags EXCEPT ![current] = TRUE]

\* GetNextProxy keeps lastUsed: it is not nil and the strategy does not rotate
KeepsLastUsed_Never(rotation, last) == FALSE
KeepsLastUsed(rotation, last) == last # Nil /\ ~ShouldRotate(rotation, last)

\* ProxyManagerImpl.LastUsed: the pointer, read under pm.mu
LastUsed_AlwaysNil == Nil
LastUsed == lastUsed

\* what a GetNextProxy call leaves in ret
GetNextProxyRet(domain, proxy, err, reselect) ==
    [op |-> "GetNextProxy", domain |-> domain, proxy |-> proxy, err |-> err,
     reselect |-> reselect]

Idle == \A g \in Threads : pc[g] = "idle"

threadVars == << statsMu, pc, frame, issued, history, rwmu >>
configVars == << proxies, resources, rotationStrategy, selectStrategy, rcProxies >>

\* the scope GetNextProxy(domain) decides in: the first matching resource,
\* or the manager
Scope_AlwaysManager(domain) == Manager
Scope(domain) ==
    LET found == getResourceByDomain(domain)
    IN  IF ErrorsIs(found.err, ErrResourceNotFound) THEN Manager
        ELSE found.resource

\* ProxyManagerImpl.GetNextProxy
GetNextProxy(domain) ==
    /\ Idle
    /\ IF NothingConfigured
       THEN /\ ret' = GetNextProxyRet(domain, Nil,
                                      proxyNotAvailable(<< ErrEmptyProxyList >>), FALSE)
            /\ UNCHANGED << lastUsed, index, isActive >>
       ELSE LET owner == Scope(domain)
            IN  IF KeepsLastUsed(ApplicableRotation(owner), lastUsed)
                THEN /\ ret' = GetNextProxyRet(domain, lastUsed, NoErr, FALSE)
                     /\ UNCHANGED << lastUsed, index, isActive >>
                ELSE \E out \in Select(owner, ApplicableSelect(owner)) :
                        /\ index' = [index EXCEPT ![owner] = out.index]
                        /\ IF out.err # NoErr
                           THEN /\ ret' = GetNextProxyRet(domain, Nil,
                                                          proxyNotAvailable(out.err), TRUE)
                                /\ UNCHANGED << lastUsed, isActive >>
                           ELSE IF out.proxy = Nil
                           THEN /\ ret' = GetNextProxyRet(domain, Nil,
                                                          << ErrProxyNotAvailable >>, TRUE)
                                /\ UNCHANGED << lastUsed, isActive >>
                           ELSE /\ isActive' = Activate(Deactivate(isActive, lastUsed),
                                                        out.proxy)
                                /\ lastUsed' = out.proxy
                                /\ ret' = GetNextProxyRet(domain, out.proxy, NoErr, TRUE)
    /\ UNCHANGED << configVars, isDisabled, statsVars, threadVars >>

\* the proxies held in all pools together
PoolEntries == Len(proxies) + Len(rcProxies["R1"]) + Len(rcProxies["R2"])

\* the size of the manager's state, which MaxSize bounds
Size ==
    PoolEntries + Cardinality({ p \in Proxies : isDisabled[p] })
        + SumOver(totalRequests, Proxies)

\* Proxy.Update as one call: ProxyStats.Update under its lock
Update_SuccessClearsErrors(p, response, err) ==
    /\ Idle
    /\ Size < MaxSize
    /\ totalRequests' = [totalRequests EXCEPT ![p] = @ + 1]
    /\ IF IsSuccess(response, err)
       THEN /\ successCount' = [successCount EXCEPT ![p] = @ + 1]
            /\ errorCount' = [errorCount EXCEPT ![p] = 0]
       ELSE errorCount' = [errorCount EXCEPT ![p] = @ + 1] /\ UNCHANGED successCount
    /\ statsLastUsed' = [statsLastUsed EXCEPT ![p] = "now"]
    /\ ret' = [op |-> "Update"]
    /\ UNCHANGED << managerVars, flagVars, threadVars >>
Update(p, response, err) ==
    /\ Idle
    /\ Size < MaxSize
    /\ totalRequests' = [totalRequests EXCEPT ![p] = @ + 1]
    /\ IF IsSuccess(response, err)
       THEN successCount' = [successCount EXCEPT ![p] = @ + 1] /\ UNCHANGED errorCount
       ELSE errorCount' = [errorCount EXCEPT ![p] = @ + 1] /\ UNCHANGED successCount
    /\ statsLastUsed' = [statsLastUsed EXCEPT ![p] = "now"]
    /\ ret' = [op |-> "Update"]
    /\ UNCHANGED << managerVars, flagVars, threadVars >>

\* Proxy.Disable
Disable(p) ==
    /\ Idle
    /\ Size < MaxSize
    /\ isDisabled' = [isDisabled EXCEPT ![p] = TRUE]
    /\ ret' = [op |-> "Disable"]
    /\ UNCHANGED << managerVars, isActive, statsVars, threadVars >>

\* Proxy.Enable
Enable(p) ==
    /\ Idle
    /\ isDisabled' = [isDisabled EXCEPT ![p] = FALSE]
    /\ ret' = [op |-> "Enable"]
    /\ UNCHANGED << managerVars, isActive, statsVars, threadVars >>

\* ProxyManagerImpl.AddProxies
AddProxies(ps) ==
    /\ Idle
    /\ Size + Len(ps) <= MaxSize
    /\ proxies' = proxies \o ps
    /\ ret' = [op |-> "AddProxies"]
    /\ UNCHANGED << resources, lastUsed, rotationStrategy, selectStrategy,
                    rcProxies, index, flagVars, statsVars, threadVars >>

\* ProxyManagerImpl.AddResources
AddResources(rs) ==
    /\ Idle
    /\ \A i \in 1..Len(rs) : \A j \in 1..Len(resources) : rs[i] # resources[j]
    /\ resources' = resources \o rs
    /\ ret' = [op |-> "AddResources"]
    /\ UNCHANGED << proxies, lastUsed, rotationStrategy, selectStrategy,
                    rcProxies, index, flagVars, statsVars, threadVars >>

\* ResourceConfig.AddProxies
ResourceAddProxies_Prepends(pools, r, ps) == [pools EXCEPT ![r] = ps \o @]
ResourceAddProxies(pools, r, ps) == [pools EXCEPT ![r] = @ \o ps]

\* ProxyManagerImpl.AddResourceProxies
AddResourceProxies(domain, ps) ==
    LET found == getResourceByDomain(domain)
    IN  /\ Idle
        /\ Size + Len(ps) <= MaxSize
        /\ IF found.err # NoErr
           THEN /\ ret' = [op |-> "AddResourceProxies", err |-> found.err]
                /\ UNCHANGED rcProxies
           ELSE /\ rcProxies' = ResourceAddProxies(rcProxies, found.resource, ps)
                /\ ret' = [op |-> "AddResourceProxies", err |-> NoErr]
        /\ UNCHANGED << proxies, resources, lastUsed, rotationStrategy,
                        selectStrategy, index, flagVars, statsVars, threadVars >>

\* the batches AddProxies and AddResourceProxies are called with
Batches == { << "C" >>, << "A", "B" >> }

\* NewProxyManager: WithProxies, WithResources and both strategies set
Init ==
    /\ InitProxyState
    /\ InitThreads
    /\ proxies \in { << >>, << "A", "B" >> }
    /\ resources \in { << >>, << "R1" >>, << "R2", "R1" >> }
    /\ lastUsed = Nil
    /\ \E strategies \in
             { << DefaultRotationStrategy, DefaultSelectStrategy >>,
               << NewRequestLimitedRotation(1), NewRoundRobinSelect(<< >>) >> } :
          /\ rotationStrategy = strategies[1]
          /\ selectStrategy = strategies[2]
    /\ rcProxies = NewRcProxies
    /\ index = NewIndex

Next ==
    \/ \E domain \in Domains : GetNextProxy(domain)
    \/ \E p \in Proxies, response \in Responses, err \in Errs : Update(p, response, err)
    \/ \E p \in Proxies : Disable(p)
    \/ \E p \in Proxies : Enable(p)
    \/ \E ps \in Batches : AddProxies(ps)
    \/ \E r \in ResIds : AddResources(<< r >>)
    \/ \E domain \in Domains, ps \in Batches : AddResourceProxies(domain, ps)

Spec == Init /\ [][Next]_vars

----------------------------------------------------------------------------
(* ProxyManagerImpl.GetNextProxy run by racing goroutines: one action per  *)
(* access that a lock protects.  The locals of a call are in frame[g].     *)

\* the call starts
GnpCall(g, domain) ==
    /\ pc[g] = "idle"
    /\ pc' = [pc EXCEPT ![g] = "gnp_check"]
    /\ frame' = [frame EXCEPT ![g] =
                    [op |-> "GetNextProxy", domain |-> domain, owner |-> Manager,
                     lastUsed |-> Nil, snap |-> << >>, kept |-> << >>,
                     filter |-> 1, i |-> 1, current |-> Nil]]
    /\ UNCHANGED << managerVars, flagVars, statsVars, statsMu, issued, history, rwmu, ret >>

\* a call returns: the goroutine is idle again and ret holds the result
GnpReturn(g, proxy, err, reselect) ==
    /\ pc' = [pc EXCEPT ![g] = "idle"]
    /\ frame' = [frame EXCEPT ![g] = idleFrame]
    /\ ret' = GetNextProxyRet(frame[g].domain, proxy, err, reselect)

\* if len(pm.proxies) == 0 && len(pm.resources) == 0
GnpCheck(g) ==
    /\ pc[g] = "gnp_check"
    /\ IF NothingConfigured
       THEN GnpReturn(g, Nil, proxyNotAvailable(<< ErrEmptyProxyList >>), FALSE)
       ELSE /\ pc' = [pc EXCEPT ![g] = "gnp_resource"]
            /\ UNCHANGED << frame, ret >>
    /\ UNCHANGED << managerVars, flagVars, statsVars, statsMu, issued, history, rwmu >>

\* pm.getResourceByDomain(domain), under pm.rMu
GnpResource(g) ==
    /\ pc[g] = "gnp_resource"
    /\ frame' = [frame EXCEPT ![g].owner = Scope(frame[g].domain)]
    /\ pc' = [pc EXCEPT ![g] = "gnp_lastUsed"]
    /\ UNCHANGED << managerVars, flagVars, statsVars, statsMu, issued, history, rwmu, ret >>

\* lastUsed := pm.LastUsed(), under pm.mu
GnpLastUsed(g) ==
    /\ pc[g] = "gnp_lastUsed"
    /\ frame' = [frame EXCEPT ![g].lastUsed = lastUsed]
    /\ pc' = [pc EXCEPT ![g] = "gnp_rotate"]
    /\ UNCHANGED << managerVars, flagVars, statsVars, statsMu, issued, history, rwmu, ret >>

\* lastUsed != nil && !ShouldRotate(lastUsed): the strategy reads the proxy's
\* flag and counters, each under the proxy's and the stats' lock
GnpRotate(g) ==
    /\ pc[g] = "gnp_rotate"
    /\ IF KeepsLastUsed(ApplicableRotation(frame[g].owner), frame[g].lastUsed)
       THEN GnpReturn(g, frame[g].lastUsed, NoErr, FALSE)
       ELSE /\ pc' = [pc EXCEPT ![g] = "gnp_snapshot"]
            /\ UNCHANGED << frame, ret >>
    /\ UNCHANGED << managerVars, flagVars, statsVars, statsMu, issued, history, rwmu >>

\* Select: the source provider's GetProxies(), a copy taken under its lock
GnpSnapshot(g) ==
    /\ pc[g] = "gnp_snapshot"
    /\ rwmu[frame[g].owner].writer = Nil
    /\ frame' = [frame EXCEPT ![g].snap = GetProxies(frame[g].owner),
                              ![g].kept = << >>,
                              ![g].filter = 1,
                              ![g].i = 1]
    /\ pc' = [pc EXCEPT ![g] = "gnp_filter"]
    /\ UNCHANGED << managerVars, flagVars, statsVars, statsMu, issued, history, rwmu, ret >>

\* whether a filter keeps proxy p: one read of p's flag under p.mu
Keeps(name, p) ==
    IF name = "RemoveActiveProxyFilter" THEN ~isActive[p] ELSE ~isDisabled[p]

\* FilteredSelectProvider.GetProxies: one iteration of a filter's loop, or
\* the step from one filter to the next, or the end of filtering
GnpFilter(g) ==
    LET f == frame[g]
        filters == ApplicableSelect(f.owner).filters
    IN  /\ pc[g] = "gnp_filter"
        /\ IF f.filter > Len(filters)
           THEN \* all filters applied
                /\ pc' = [pc EXCEPT ![g] = "gnp_pick"]
                /\ UNCHANGED frame
           ELSE IF f.i <= Len(f.snap)
           THEN \* the loop body of Filter
                /\ frame' = [frame EXCEPT
                      ![g].kept = IF Keeps(filters[f.filter], f.snap[f.i])
                                  THEN Append(f.kept, f.snap[f.i]) ELSE f.kept,
                      ![g].i = f.i + 1]
                /\ UNCHANGED pc
           ELSE \* Filter returns; stop when nothing is left
                /\ frame' = [frame EXCEPT ![g].snap = f.kept,
                                          ![g].kept = << >>,
                                          ![g].i = 1,
                                          ![g].filter = f.filter + 1]
                /\ pc' = [pc EXCEPT ![g] =
                            IF Len(f.kept) = 0 THEN "gnp_pick" ELSE "gnp_filter"]
        /\ UNCHANGED << managerVars, flagVars, statsVars, statsMu, issued, history, rwmu, ret >>

\* RandomSelect.Select / RoundRobinSelect.Select on the filtered list (the
\* cursor moves under the strategy's mutex); a failure returns at once
GnpPick(g) ==
    LET f == frame[g]
        strategy == ApplicableSelect(f.owner)
        next == (index[f.owner] + 1) % Len(f.snap)
    IN  /\ pc[g] = "gnp_pick"
        /\ IF Len(f.snap) = 0
           THEN /\ GnpReturn(g, Nil, proxyNotAvailable(<< ErrFailedSelectProxy >>), TRUE)
                /\ UNCHANGED index
           ELSE /\ pc' = [pc EXCEPT ![g] = "gnp_deactivate"]
                /\ UNCHANGED ret
                /\ IF strategy.kind = "Random"
                   THEN /\ \E i \in 1..Len(f.snap) :
                              frame' = [frame EXCEPT ![g].current = f.snap[i]]
                        /\ UNCHANGED index
                   ELSE /\ index' = [index EXCEPT ![f.owner] = next]
                        /\ frame' = [frame EXCEPT ![g].current = f.snap[next + 1]]
        /\ UNCHANGED << configVars, lastUsed, flagVars, statsVars, statsMu, issued, history, rwmu >>

\* if lastUsed != nil { lastUsed.deactivate() }
GnpDeactivate(g) ==
    /\ pc[g] = "gnp_deactivate"
    /\ isActive' = Deactivate(isActive, frame[g].lastUsed)
    /\ pc' = [pc EXCEPT ![g] = "gnp_activate"]
    /\ UNCHANGED << managerVars, isDisabled, statsVars, statsMu, frame, issued, history, rwmu, ret >>

\* current.activate()
GnpActivate(g) ==
    /\ pc[g] = "gnp_activate"
    /\ isActive' = Activate(isActive, frame[g].current)
    /\ pc' = [pc EXCEPT ![g] = "gnp_store"]
    /\ UNCHANGED << managerVars, isDisabled, statsVars, statsMu, frame, issued, history, rwmu, ret >>

\* pm.mu.Lock(); pm.lastUsed = current; return current, nil
GnpStore(g) ==
    /\ pc[g] = "gnp_store"
    /\ lastUsed' = frame[g].current
    /\ GnpReturn(g, frame[g].current, NoErr, TRUE)
    /\ UNCHANGED << configVars, index, flagVars, statsVars, statsMu, issued, history, rwmu >>

\* Proxy.Update by an idle goroutine, as one step: ProxyStats.Update runs
\* under the stats lock, and the strategies read the counters under it
GoUpdate(g, p, response, err) ==
    /\ pc[g] = "idle"
    /\ SumOver(totalRequests, Proxies) < MaxConcUpdates
    /\ totalRequests' = [totalRequests EXCEPT ![p] = @ + 1]
    /\ IF IsSuccess(response, err)
       THEN successCount' = [successCount EXCEPT ![p] = @ + 1] /\ UNCHANGED errorCount
       ELSE errorCount' = [errorCount EXCEPT ![p] = @ + 1] /\ UNCHANGED successCount
    /\ statsLastUsed' = [statsLastUsed EXCEPT ![p] = "now"]
    /\ UNCHANGED << managerVars, flagVars, threadVars, ret >>

\* a manager with global pool [A, B], the resource R1 for "a.com" holding
\* [C], and the default strategies
InitConc ==
    /\ InitProxyState
    /\ InitThreads
    /\ proxies = << "A", "B" >>
    /\ resources = << "R1" >>
    /\ lastUsed = Nil
    /\ rotationStrategy = DefaultRotationStrategy
    /\ selectStrategy = DefaultSelectStrategy
    /\ rcProxies = NewRcProxies
    /\ index = NewIndex

NextConc ==
    \/ \E g \in Threads, domain \in {ACom, BCom} : GnpCall(g, domain)
    \/ \E g \in Threads : GnpCheck(g)
    \/ \E g \in Threads : GnpResource(g)
    \/ \E g \in Threads : GnpLastUsed(g)
    \/ \E g \in Threads : GnpRotate(g)
    \/ \E g \in Threads : GnpSnapshot(g)
    \/ \E g \in Threads : GnpFilter(g)
    \/ \E g \in Threads : GnpPick(g)
    \/ \E g \in Threads : GnpDeactivate(g)
    \/ \E g \in Threads : GnpActivate(g)
    \/ \E g \in Threads : GnpStore(g)
    \/ \E g \in Threads, p \in Proxies, response \in Responses, err \in Errs :
          GoUpdate(g, p, response, err)

SpecConc == InitConc /\ [][NextConc]_vars

----------------------------------------------------------------------------
(* A selection strategy on its own: Select called again and again on one   *)
(* strategy whose provider is the manager's pool.                          *)

\* the pools of distinct proxies
Pools ==
    { ps \in UNION { [1..n -> Proxies] : n \in 0..Cardinality(Proxies) } :
        \A i, j \in 1..Len(ps) : ps[i] = ps[j] => i = j }

\* selects.NewRoundRobinSelect / NewRandomSelect over a plain or a
\* filtered provider
SelectStrategies ==
    { NewRoundRobinSelect(<< >>), NewRoundRobinSelect(<< "RemoveDisabledFilter" >>),
      NewRandomSelect(<< >>), DefaultSelectStrategy }

InitSelect ==
    /\ InitThreads
    /\ proxies \in Pools
    /\ selectStrategy \in SelectStrategies
    /\ \E disabled \in { {}, {"A"}, Proxies } :
          isDisabled = [p \in Proxies |-> p \in disabled]
    /\ \E active \in {Nil, "B"} : isActive = [p \in Proxies |-> p = active]
    /\ totalRequests = [p \in Proxies |-> 0]
    /\ successCount = [p \in Proxies |-> 0]
    /\ errorCount = [p \in Proxies |-> 0]
    /\ statsLastUsed = [p \in Proxies |-> "zero"]
    /\ statsMu = [p \in Proxies |-> Free]
    /\ issued = [p \in Proxies |-> [success |-> 0, error |-> 0]]
    /\ resources = << >>
    /\ lastUsed = Nil
    /\ rotationStrategy = DefaultRotationStrategy
    /\ rcProxies = NewRcProxies
    /\ index = NewIndex

\* SelectStrategy.Select on the strategy under test
StrategySelect ==
    /\ Len(history) < MaxSelects
    /\ \E out \in Select(Manager, selectStrategy) :
          /\ index' = [index EXCEPT ![Manager] = out.index]
          /\ history' = Append(history, out.proxy)
          /\ ret' = [op |-> "Select", proxy |-> out.proxy, err |-> out.err]
    /\ UNCHANGED << proxies, resources, lastUsed, rotationStrategy, selectStrategy,
                    rcProxies, flagVars, statsVars, statsMu, pc, frame, issued,
                    rwmu >>

NextSelect == StrategySelect

SpecSelect == InitSelect /\ [][NextSelect]_vars

----------------------------------------------------------------------------
(* A rotation strategy on its own: ShouldRotate applied to a composite of  *)
(* up to MaxStrategies sub-strategies, for a proxy in any condition.       *)

\* the sub-strategies: each implementation, and an empty composite
BaseRotations ==
    { OnlyEnabledRotation, NewErrorThresholdRotation(1), NewErrorThresholdRotation(2),
      NewRequestLimitedRotation(2), RoundRobinRotation,
      NewCompositeRotationStrategy(RotationLogicAND, << >>) }

\* rotations.NewCompositeRotationStrategy(logic, strategies...)
CompositeRotations ==
    { NewCompositeRotationStrategy(logic, strategies) :
        logic \in {RotationLogicAND, RotationLogicOR},
        strategies \in UNION { [1..n -> BaseRotations] : n \in 0..MaxStrategies } }

\* proxy A has served any mix of requests and may be disabled; the others
\* are new
InitRotation ==
    /\ InitThreads
    /\ rotationStrategy \in CompositeRotations
    /\ \E disabled \in BOOLEAN, successes \in 0..1, errors \in 0..2 :
          /\ isDisabled = [p \in Proxies |-> p = "A" /\ disabled]
          /\ successCount = [p \in Proxies |-> IF p = "A" THEN successes ELSE 0]
          /\ errorCount = [p \in Proxies |-> IF p = "A" THEN errors ELSE 0]
          /\ totalRequests = [p \in Proxies |-> IF p = "A" THEN successes + errors ELSE 0]
          /\ statsLastUsed =
                [p \in Proxies |-> IF p = "A" /\ successes + errors > 0 THEN "now" ELSE "zero"]
    /\ isActive = [p \in Proxies |-> FALSE]
    /\ statsMu = [p \in Proxies |-> Free]
    /\ issued = [p \in Proxies |-> [success |-> 0, error |-> 0]]
    /\ proxies = << "A", "B" >>
    /\ resources = << >>
    /\ lastUsed = Nil
    /\ selectStrategy = DefaultSelectStrategy
    /\ rcProxies = NewRcProxies
    /\ index = NewIndex

\* RotationStrategy.ShouldRotate(proxy) on the strategy under test
RotationShouldRotate(proxy) ==
    /\ ret' = [op |-> "ShouldRotate", proxy |-> proxy,
               result |-> ShouldRotate(rotationStrategy, proxy)]
    /\ UNCHANGED << managerVars, flagVars, statsVars, threadVars >>

NextRotation == \E proxy \in {"A", "B"} : RotationShouldRotate(proxy)

SpecRotation == InitRotation /\ [][NextRotation]_vars

----------------------------------------------------------------------------
(* ResourceConfig.CompareDomain on its own: one resource for example.com,  *)
(* asked about domains written in every way the pieces below combine.      *)

ExampleCom == << "e", "x", "a", "m", "p", "l", "e", ".", "c", "o", "m" >>
ExampleOrg == << "e", "x", "a", "m", "p", "l", "e", ".", "o", "r", "g" >>
NotExampleCom == << "n", "o", "t", "e", "x", "a", "m", "p", "l", "e", ".", "c", "o", "m" >>
ExampleComUpper == << "E", "X", "A", "M", "P", "L", "E", ".", "c", "o", "m" >>
ApiLabel == << "a", "p", "i", "." >>
Slash == << "/" >>

ApiExampleCom == ApiLabel \o ExampleCom
HttpsExampleComSlash == HttpsPrefix \o ExampleCom \o Slash
HttpsWwwExampleComSlash == HttpsPrefix \o WwwPrefix \o ExampleComUpper \o Slash

\* the domains CompareDomain is called with: an optional scheme, "www." and
\* subdomain label, a host, an optional trailing slash
DomainInputs ==
    { scheme \o www \o sub \o host \o tail :
        scheme \in {EmptyStr, HttpPrefix, HttpsPrefix},
        www \in {EmptyStr, WwwPrefix},
        sub \in {EmptyStr, ApiLabel},
        host \in {ExampleCom, ExampleComUpper, ExampleOrg, NotExampleCom},
        tail \in {EmptyStr, Slash} }

ExampleResIds == {"E1", "E2", "E3", "E4"}

\* E1: NewResourceConfig(true, WithDomain("example.com")), subdomains
\*     included by default
\* E2: the same with WithIgnoreSubdomains(false): subdomains excluded
\* E3, E4: as E1 and E2 with WithDomain("https://www.EXAMPLE.com/")
rcExample ==
    [E1 |-> NewResourceConfig(TRUE, ExampleCom, TRUE),
     E2 |-> NewResourceConfig(TRUE, ExampleCom, FALSE),
     E3 |-> NewResourceConfig(TRUE, HttpsWwwExampleComSlash, TRUE),
     E4 |-> NewResourceConfig(TRUE, HttpsWwwExampleComSlash, FALSE)]

\* a manager holding the one resource under test
InitDomain ==
    /\ InitProxyState
    /\ InitThreads
    /\ proxies = << >>
    /\ resources \in { << r >> : r \in ExampleResIds }
    /\ lastUsed = Nil
    /\ rotationStrategy = DefaultRotationStrategy
    /\ selectStrategy = DefaultSelectStrategy
    /\ rcProxies = NewRcProxies
    /\ index = NewIndex

\* ResourceConfig.CompareDomain(domain) on the resource under test
ResourceCompareDomain(domain) ==
    /\ ret' = [op |-> "CompareDomain", resource |-> resources[1], domain |-> domain,
               result |-> CompareDomain(rcExample[resources[1]], domain)]
    /\ UNCHANGED << managerVars, flagVars, statsVars, threadVars >>

NextDomain == \E domain \in DomainInputs : ResourceCompareDomain(domain)

SpecDomain == InitDomain /\ [][NextDomain]_vars

----------------------------------------------------------------------------
(* AddProxies and GetProxies run by racing goroutines, on the manager      *)
(* (under pMu) and on a ResourceConfig (under its mu): one action per lock *)
(* operation and per access to the pool.                                   *)

\* the pools the goroutines race on
PoolOwners == {Manager, "R1"}

\* sync.RWMutex: Lock waits for the writer and every reader to leave
RWMuCanLock_NoExclusion(m) == TRUE
RWMuCanLock(m) == rwmu[m].writer = Nil /\ rwmu[m].readers = {}

\* sync.RWMutex: RLock waits for the writer to leave
RWMuCanRLock(m) == rwmu[m].writer = Nil

\* the calls that have started and are not in the history yet
PoolCallsPending == { g \in Threads : pc[g] \notin {"idle", "add_unlock"} }

\* AddProxies(ps...) is called on owner
AddCall(g, owner, ps) ==
    /\ pc[g] = "idle"
    /\ Len(history) + Cardinality(PoolCallsPending) < MaxPoolCalls
    /\ pc' = [pc EXCEPT ![g] = "add_lock"]
    /\ frame' = [frame EXCEPT ![g] =
                    [op |-> "AddProxies", owner |-> owner, ps |-> ps, tmp |-> << >>]]
    /\ UNCHANGED << managerVars, flagVars, statsVars, statsMu, issued, history,
                    rwmu, ret >>

\* pMu.Lock()
AddLock(g) ==
    /\ pc[g] = "add_lock"
    /\ RWMuCanLock(frame[g].owner)
    /\ rwmu' = [rwmu EXCEPT ![frame[g].owner].writer = g]
    /\ pc' = [pc EXCEPT ![g] = "add_load"]
    /\ UNCHANGED << managerVars, flagVars, statsVars, statsMu, frame, issued,
                    history, ret >>

\* append(pm.proxies, proxies...): the pool is read
AddLoad(g) ==
    /\ pc[g] = "add_load"
    /\ frame' = [frame EXCEPT ![g].tmp = GetProxies(frame[g].owner)]
    /\ pc' = [pc EXCEPT ![g] = "add_store"]
    /\ UNCHANGED << managerVars, flagVars, statsVars, statsMu, issued, history,
                    rwmu, ret >>

\* pm.proxies = ... : the grown pool is stored
AddStore(g) ==
    /\ pc[g] = "add_store"
    /\ IF frame[g].owner = Manager
       THEN /\ proxies' = frame[g].tmp \o frame[g].ps
            /\ UNCHANGED rcProxies
       ELSE /\ rcProxies' = [rcProxies EXCEPT ![frame[g].owner] =
                                frame[g].tmp \o frame[g].ps]
            /\ UNCHANGED proxies
    /\ history' = Append(history, [op |-> "AddProxies", owner |-> frame[g].owner,
                                   proxies |-> frame[g].ps])
    /\ pc' = [pc EXCEPT ![g] = "add_unlock"]
    /\ UNCHANGED << resources, lastUsed, rotationStrategy, selectStrategy, index,
                    flagVars, statsVars, statsMu, frame, issued, rwmu, ret >>

\* the deferred pMu.Unlock(), and the return
AddUnlock(g) ==
    /\ pc[g] = "add_unlock"
    /\ rwmu' = [rwmu EXCEPT ![frame[g].owner].writer = Nil]
    /\ pc' = [pc EXCEPT ![g] = "idle"]
    /\ frame' = [frame EXCEPT ![g] = idleFrame]
    /\ ret' = [op |-> "AddProxies"]
    /\ UNCHANGED << managerVars, flagVars, statsVars, statsMu, issued, history >>

\* GetProxies() is called on owner
GetCall(g, owner) ==
    /\ pc[g] = "idle"
    /\ Len(history) + Cardinality(PoolCallsPending) < MaxPoolCalls
    /\ pc' = [pc EXCEPT ![g] = "get_rlock"]
    /\ frame' = [frame EXCEPT ![g] =
                    [op |-> "GetProxies", owner |-> owner, proxies |-> << >>]]
    /\ UNCHANGED << managerVars, flagVars, statsVars, statsMu, issued, history,
                    rwmu, ret >>

\* pMu.RLock()
GetRLock(g) ==
    /\ pc[g] = "get_rlock"
    /\ RWMuCanRLock(frame[g].owner)
    /\ rwmu' = [rwmu EXCEPT ![frame[g].owner].readers = @ \cup {g}]
    /\ pc' = [pc EXCEPT ![g] = "get_make"]
    /\ UNCHANGED << managerVars, flagVars, statsVars, statsMu, frame, issued,
                    history, ret >>

\* proxies := make([]*Proxy, len(pm.proxies))
GetMake(g) ==
    /\ pc[g] = "get_make"
    /\ frame' = [frame EXCEPT ![g].proxies =
                    [i \in 1..Len(GetProxies(frame[g].owner)) |-> Nil]]
    /\ pc' = [pc EXCEPT ![g] = "get_copy"]
    /\ UNCHANGED << managerVars, flagVars, statsVars, statsMu, issued, history,
                    rwmu, ret >>

\* copy(proxies, pm.proxies): as many elements as both slices hold
GetCopy(g) ==
    /\ pc[g] = "get_copy"
    /\ frame' = [frame EXCEPT ![g].proxies =
                    LET src == GetProxies(frame[g].owner)
                    IN  [i \in 1..Len(@) |-> IF i <= Len(src) THEN src[i] ELSE @[i]]]
    /\ pc' = [pc EXCEPT ![g] = "get_runlock"]
    /\ UNCHANGED << managerVars, flagVars, statsVars, statsMu, issued, history,
                    rwmu, ret >>

\* the deferred pMu.RUnlock(), and the return of the copy
GetRUnlock(g) ==
    /\ pc[g] = "get_runlock"
    /\ rwmu' = [rwmu EXCEPT ![frame[g].owner].readers = @ \ {g}]
    /\ pc' = [pc EXCEPT ![g] = "idle"]
    /\ frame' = [frame EXCEPT ![g] = idleFrame]
    /\ ret' = [op |-> "GetProxies", owner |-> frame[g].owner,
               proxies |-> frame[g].proxies]
    /\ history' = Append(history, [op |-> "GetProxies", owner |-> frame[g].owner,
                                   proxies |-> frame[g].proxies])
    /\ UNCHANGED << managerVars, flagVars, statsVars, statsMu, issued >>

\* a manager with WithProxies(A, B) and the resource R1 holding C
InitPool ==
    /\ InitProxyState
    /\ InitThreads
    /\ proxies = << "A", "B" >>
    /\ resources = << "R1" >>
    /\ lastUsed = Nil
    /\ rotationStrategy = DefaultRotationStrategy
    /\ selectStrategy = DefaultSelectStrategy
    /\ rcProxies = NewRcProxies
    /\ index = NewIndex

NextPool ==
    \/ \E g \in Threads, owner \in PoolOwners, ps \in Batches : AddCall(g, owner, ps)
    \/ \E g \in Threads : AddLock(g)
    \/ \E g \in Threads : AddLoad(g)
    \/ \E g \in Threads : AddStore(g)
    \/ \E g \in Threads : AddUnlock(g)
    \/ \E g \in Threads, owner \in PoolOwners : GetCall(g, owner)
    \/ \E g \in Threads : GetRLock(g)
    \/ \E g \in Threads : GetMake(g)
    \/ \E g \in Threads : GetCopy(g)
    \/ \E g \in Threads : GetRUnlock(g)

SpecPool == InitPool /\ [][NextPool]_vars

----------------------------------------------------------------------------
(* RoundRobinSelect.Select, goroutines racing: one action per memory       *)
(* access or lock operation                                                *)

\* the goroutines calling Select on a fixed pool
RRThreads == {"g1", "g2", "g3"}

\* s.mu.Lock() can proceed: sync.Mutex excludes every other holder
MuCanLock_NoExclusion(m) == TRUE
MuCanLock(m) == rwmu[m].writer = Nil

\* (s.index + 1) % len(proxies)
NextIndex_NoModulo(i, n) == i + 1
NextIndex(i, n) == (i + 1) % n

\* the Select calls issued and not yet returned
RRCallsPending == { g \in DOMAIN pc : pc[g] # "idle" }

\* what a Select call leaves in the history: its result, the snapshot it
\* drew from, the cursor it read, and how many calls had returned when it
\* was issued
RRRecord(g, proxy, err, cursor, panic) ==
    [op |-> "Select", proxy |-> proxy, err |-> err,
     proxies |-> frame[g].proxies, index |-> cursor,
     began |-> frame[g].began, panic |-> panic]

\* Select() is called on the manager's round-robin strategy
RRCall(g) ==
    /\ pc[g] = "idle"
    /\ selectStrategy.kind = "RoundRobin"
    /\ Len(history) + Cardinality(RRCallsPending) < MaxRRCalls
    /\ pc' = [pc EXCEPT ![g] = "rr_get"]
    /\ frame' = [frame EXCEPT ![g] =
                    [op |-> "Select", proxies |-> << >>, tmp |-> Nil,
                     began |-> Len(history)]]
    /\ UNCHANGED << managerVars, flagVars, statsVars, statsMu, issued, history,
                    rwmu, ret >>

\* proxies := s.provider.GetProxies(), and the return of
\* ErrFailedSelectProxy when the snapshot is empty
RRGetProxies(g) ==
    /\ pc[g] = "rr_get"
    /\ LET ps == FilteredGetProxies(Manager, selectStrategy.filters)
       IN  IF Len(ps) = 0
           THEN /\ pc' = [pc EXCEPT ![g] = "idle"]
                /\ frame' = [frame EXCEPT ![g] = idleFrame]
                /\ ret' = [op |-> "Select", proxy |-> Nil,
                           err |-> << ErrFailedSelectProxy >>]
                /\ history' = Append(history,
                                 RRRecord(g, Nil, << ErrFailedSelectProxy >>,
                                          index[Manager], FALSE))
           ELSE /\ pc' = [pc EXCEPT ![g] = "rr_lock"]
                /\ frame' = [frame EXCEPT ![g].proxies = ps]
                /\ UNCHANGED << history, ret >>
    /\ UNCHANGED << managerVars, flagVars, statsVars, statsMu, issued, rwmu >>

\* s.mu.Lock()
RRLock(g) ==
    /\ pc[g] = "rr_lock"
    /\ MuCanLock(SelectMu)
    /\ rwmu' = [rwmu EXCEPT ![SelectMu].writer = g]
    /\ pc' = [pc EXCEPT ![g] = "rr_load"]
    /\ UNCHANGED << managerVars, flagVars, statsVars, statsMu, frame, issued,
                    history, ret >>

\* s.index = (s.index + 1) % len(proxies): the cursor is read
RRLoad(g) ==
    /\ pc[g] = "rr_load"
    /\ frame' = [frame EXCEPT ![g].tmp = index[Manager]]
    /\ pc' = [pc EXCEPT ![g] = "rr_store"]
    /\ UNCHANGED << managerVars, flagVars, statsVars, statsMu, issued, history,
                    rwmu, ret >>

\* s.index = (s.index + 1) % len(proxies): the new cursor is stored
RRStore(g) ==
    /\ pc[g] = "rr_store"
    /\ index' = [index EXCEPT ![Manager] =
                    NextIndex(frame[g].tmp, Len(frame[g].proxies))]
    /\ pc' = [pc EXCEPT ![g] = "rr_return"]
    /\ UNCHANGED << proxies, resources, lastUsed, rotationStrategy,
                    selectStrategy, rcProxies, flagVars, statsVars, statsMu,
                    frame, issued, history, rwmu, ret >>

\* return proxies[s.index], nil: the cursor is read again and indexes the
\* snapshot, which panics when it is out of range; the deferred s.mu.Unlock()
RRReturn(g) ==
    /\ pc[g] = "rr_return"
    /\ LET i == index[Manager]
           inRange == 0 <= i /\ i < Len(frame[g].proxies)
           proxy == IF inRange THEN frame[g].proxies[i + 1] ELSE Nil
       IN  /\ history' = Append(history, RRRecord(g, proxy, NoErr, i, ~inRange))
           /\ ret' = [op |-> "Select", proxy |-> proxy, err |-> NoErr]
    /\ rwmu' = [rwmu EXCEPT ![SelectMu].writer = Nil]
    /\ pc' = [pc EXCEPT ![g] = "idle"]
    /\ frame' = [frame EXCEPT ![g] = idleFrame]
    /\ UNCHANGED << managerVars, flagVars, statsVars, statsMu, issued >>

\* a fresh NewRoundRobinSelect over the unfiltered pool of a manager built
\* WithProxies(...), no resources
InitRR ==
    /\ InitProxyState
    /\ pc = [g \in RRThreads |-> "idle"]
    /\ frame = [g \in RRThreads |-> idleFrame]
    /\ history = << >>
    /\ rwmu = [m \in Mutexes |-> Unlocked]
    /\ ret = NoRet
    /\ proxies \in { << "A" >>, << "A", "B" >>, << "A", "B", "C" >>,
                     << "B", "C", "A" >> }
    /\ resources = << >>
    /\ lastUsed = Nil
    /\ rotationStrategy = DefaultRotationStrategy
    /\ selectStrategy = NewRoundRobinSelect(<< >>)
    /\ rcProxies = NewRcProxies
    /\ index = NewIndex

NextRR ==
    \E g \in DOMAIN pc :
        \/ RRCall(g)
        \/ RRGetProxies(g)
        \/ RRLock(g)
        \/ RRLoad(g)
        \/ RRStore(g)
        \/ RRReturn(g)

SpecRR == InitRR /\ [][NextRR]_vars

\* the entries of the pool and the flags set on its proxies
RRSize ==
    Len(proxies) + Cardinality({ p \in Proxies : isDisabled[p] })
                 + Cardinality({ p \in Proxies : isActive[p] })

\* ProxyManagerImpl.AddProxies while Select calls run: the pool grows
RRAddProxies(ps) ==
    /\ RRSize + Len(ps) <= MaxRRPool
    /\ proxies' = proxies \o ps
    /\ UNCHANGED << resources, lastUsed, rotationStrategy, selectStrategy,
                    rcProxies, index, flagVars, statsVars, threadVars, ret >>

\* Proxy.Disable on a proxy of the pool while Select calls run
RRDisable(p) ==
    /\ ~isDisabled[p]
    /\ RRSize < MaxRRPool
    /\ isDisabled' = [isDisabled EXCEPT ![p] = TRUE]
    /\ UNCHANGED << managerVars, isActive, statsVars, threadVars, ret >>

\* the end of a GetNextProxy call that chose p: lastUsed.deactivate(),
\* current.activate(), pm.lastUsed = current
RRActivate(p) ==
    /\ lastUsed # p
    /\ lastUsed = Nil => RRSize < MaxRRPool
    /\ isActive' = Activate(Deactivate(isActive, lastUsed), p)
    /\ lastUsed' = p
    /\ UNCHANGED << proxies, resources, rotationStrategy, selectStrategy,
                    rcProxies, index, isDisabled, statsVars, threadVars, ret >>

\* a fresh NewRoundRobinSelect over the pool without its active and its
\* disabled proxies, as DefaultSelectStrategy filters it
InitRRGrow ==
    /\ InitProxyState
    /\ InitThreads
    /\ proxies \in { << >>, << "A" >> }
    /\ resources = << >>
    /\ lastUsed = Nil
    /\ rotationStrategy = DefaultRotationStrategy
    /\ selectStrategy = NewRoundRobinSelect(DefaultSelectStrategy.filters)
    /\ rcProxies = NewRcProxies
    /\ index = NewIndex

\* ret keeps what the last Select call returned
NextRRGrow ==
    \/ NextRR
    \/ \E ps \in Batches : RRAddProxies(ps)
    \/ \E p \in { proxies[i] : i \in 1..Len(proxies) } :
          RRDisable(p) \/ RRActivate(p)

SpecRRGrow == InitRRGrow /\ [][NextRRGrow]_vars

----------------------------------------------------------------------------
(* FilteredSelectProvider.GetProxies on its own                            *)

\* the filters the package provides
FilterNames == {"RemoveActiveProxyFilter", "RemoveDisabledFilter"}

\* the filter lists NewFilteredSelectProvider can be given
FilterLists == UNION { [1..n -> FilterNames] : n \in 0..MaxFilters }

\* the snapshots a source provider can return: a pool may hold a proxy twice
SourcePools == UNION { [1..n -> Proxies] : n \in 0..Cardinality(Proxies) }

\* the number of filter.Filter calls the loop of
\* FilteredSelectProvider.GetProxies makes from the i-th filter on
RECURSIVE FiltersApplied(_, _, _)
FiltersApplied(filters, i, ps) ==
    IF i > Len(filters) THEN 0
    ELSE LET filtered == Filter(filters[i], ps)
         IN  IF Len(filtered) = 0 THEN 1
             ELSE 1 + FiltersApplied(filters, i + 1, filtered)

\* a provider built by NewFilteredSelectProvider over the manager's pool,
\* whose proxies carry any flags
InitFilter ==
    /\ InitThreads
    /\ proxies \in SourcePools
    /\ \E filters \in FilterLists : selectStrategy = NewRandomSelect(filters)
    /\ isDisabled \in [Proxies -> BOOLEAN]
    /\ isActive \in [Proxies -> BOOLEAN]
    /\ totalRequests = NewProxyStats
    /\ successCount = NewProxyStats
    /\ errorCount = NewProxyStats
    /\ statsLastUsed = [p \in Proxies |-> "zero"]
    /\ statsMu = [p \in Proxies |-> Free]
    /\ issued = [p \in Proxies |-> [success |-> 0, error |-> 0]]
    /\ resources = << >>
    /\ lastUsed = Nil
    /\ rotationStrategy = DefaultRotationStrategy
    /\ rcProxies = NewRcProxies
    /\ index = NewIndex

\* FilteredSelectProvider.GetProxies on the provider under test
ProviderGetProxies ==
    /\ ret' = [op |-> "FilteredSelectProvider.GetProxies",
               proxies |-> FilteredGetProxies(Manager, selectStrategy.filters),
               applied |-> FiltersApplied(selectStrategy.filters, 1,
                                          GetProxies(Manager))]
    /\ UNCHANGED << managerVars, flagVars, statsVars, threadVars >>

NextFilter == ProviderGetProxies

SpecFilter == InitFilter /\ [][NextFilter]_vars

----------------------------------------------------------------------------
(* NewResourceConfig with or without normalization, then CompareDomain     *)

Dot == << "." >>
ExampleComDot == ExampleCom \o Dot
HttpsExampleComDotSlash == HttpsPrefix \o ExampleCom \o Dot \o Slash

\* the strings given to WithDomain and to CompareDomain: the empty string,
\* plain hosts, hosts in upper case, absolute hosts ending in a dot, URLs
EdgeDomains ==
    { EmptyStr, Slash, HttpsPrefix, ExampleCom, ExampleComUpper, ApiExampleCom,
      ExampleComDot, HttpsExampleComSlash, HttpsWwwExampleComSlash,
      HttpsExampleComDotSlash }

\* the arguments of NewResourceConfig: the normalizeDomain flag, the string
\* of WithDomain and the flag of WithIgnoreSubdomains
ResourceArgs ==
    [normalize : BOOLEAN, domain : EdgeDomains, ignoreSubdomains : BOOLEAN]

\* the resource NewResourceConfig builds from the arguments
rcOf(args) == NewResourceConfig(args.normalize, args.domain, args.ignoreSubdomains)

\* a manager holding the one resource under test, named by the arguments it
\* was built from
InitNewResource ==
    /\ InitProxyState
    /\ InitThreads
    /\ proxies = << >>
    /\ resources \in { << args >> : args \in ResourceArgs }
    /\ lastUsed = Nil
    /\ rotationStrategy = DefaultRotationStrategy
    /\ selectStrategy = DefaultSelectStrategy
    /\ rcProxies = NewRcProxies
    /\ index = NewIndex

\* ResourceConfig.CompareDomain(domain) on the resource under test
NewResourceCompareDomain(domain) ==
    /\ ret' = [op |-> "CompareDomain", resource |-> resources[1], domain |-> domain,
               result |-> CompareDomain(rcOf(resources[1]), domain)]
    /\ UNCHANGED << managerVars, flagVars, statsVars, threadVars >>

NextNewResource == \E domain \in EdgeDomains : NewResourceCompareDomain(domain)

SpecNewResource == InitNewResource /\ [][NextNewResource]_vars

----------------------------------------------------------------------------
(* GetNextProxy racing with AddProxies on the global pool                  *)

\* a manager built with no proxies and no resources, default strategies
InitRace ==
    /\ InitProxyState
    /\ InitThreads
    /\ proxies = << >>
    /\ resources = << >>
    /\ lastUsed = Nil
    /\ rotationStrategy = DefaultRotationStrategy
    /\ selectStrategy = DefaultSelectStrategy
    /\ rcProxies = NewRcProxies
    /\ index = NewIndex

NextRace ==
    \/ \E g \in Threads : GnpCall(g, BCom)
    \/ \E g \in Threads : GnpCheck(g)
    \/ \E g \in Threads : GnpResource(g)
    \/ \E g \in Threads : GnpLastUsed(g)
    \/ \E g \in Threads : GnpRotate(g)
    \/ \E g \in Threads : GnpSnapshot(g)
    \/ \E g \in Threads : GnpFilter(g)
    \/ \E g \in Threads : GnpPick(g)
    \/ \E g \in Threads : GnpDeactivate(g)
    \/ \E g \in Threads : GnpActivate(g)
    \/ \E g \in Threads : GnpStore(g)
    \/ \E g \in Threads : AddCall(g, Manager, << "C" >>)
    \/ \E g \in Threads : AddLock(g)
    \/ \E g \in Threads : AddLoad(g)
    \/ \E g \in Threads : AddStore(g)
    \/ \E g \in Threads : AddUnlock(g)

SpecRace == InitRace /\ [][NextRace]_vars

----------------------------------------------------------------------------
(* GetNextProxy and Update racing on a manager without resources           *)

\* a manager with global pool [A, B], no resources, the default strategies
InitConcGlobal ==
    /\ InitProxyState
    /\ InitThreads
    /\ proxies = << "A", "B" >>
    /\ resources = << >>
    /\ lastUsed = Nil
    /\ rotationStrategy = DefaultRotationStrategy
    /\ selectStrategy = DefaultSelectStrategy
    /\ rcProxies = NewRcProxies
    /\ index = NewIndex

NextConcGlobal ==
    \/ \E g \in Threads, domain \in {ACom, BCom} : GnpCall(g, domain)
    \/ \E g \in Threads : GnpCheck(g)
    \/ \E g \in Threads : GnpResource(g)
    \/ \E g \in Threads : GnpLastUsed(g)
    \/ \E g \in Threads : GnpRotate(g)
    \/ \E g \in Threads : GnpSnapshot(g)
    \/ \E g \in Threads : GnpFilter(g)
    \/ \E g \in Threads : GnpPick(g)
    \/ \E g \in Threads : GnpDeactivate(g)
    \/ \E g \in Threads : GnpActivate(g)
    \/ \E g \in Threads : GnpStore(g)
    \/ \E g \in Threads, p \in Proxies, response \in Responses, err \in Errs :
          GoUpdate(g, p, response, err)

SpecConcGlobal == InitConcGlobal /\ [][NextConcGlobal]_vars

----------------------------------------------------------------------------
(* ProxyTransport.RoundTrip, goroutines sending requests concurrently      *)

\* the requests sent and not yet answered
RequestsPending == { g \in Threads : pc[g] # "idle" }

\* pt.RoundTrip(req) is called for a request to domain
RtCall(g, domain) ==
    /\ pc[g] = "idle"
    /\ Len(history) + Cardinality(RequestsPending) < MaxRequests
    /\ pc' = [pc EXCEPT ![g] = "rt_selector"]
    /\ frame' = [frame EXCEPT ![g] =
                    [op |-> "RoundTrip", domain |-> domain, chosen |-> Nil,
                     selErr |-> NoErr, resp |-> Nil, err |-> Nil, proxy |-> Nil]]
    /\ UNCHANGED << managerVars, flagVars, statsVars, statsMu, issued, history,
                    rwmu, ret >>

\* inside pt.baseTransport.RoundTrip(req): the ProxySelector of
\* GetProxySelector calls pm.GetNextProxy(req.URL.Hostname()), then fails
\* with ErrProxyNotAvailable when the proxy is disabled
RtSelector(g) ==
    /\ pc[g] = "rt_selector"
    /\ pc' = [pc EXCEPT ![g] = "rt_base"]
    /\ IF NothingConfigured
       THEN /\ frame' = [frame EXCEPT ![g].selErr =
                            proxyNotAvailable(<< ErrEmptyProxyList >>)]
            /\ UNCHANGED << lastUsed, index, isActive >>
       ELSE LET owner == Scope(frame[g].domain)
            IN  IF KeepsLastUsed(ApplicableRotation(owner), lastUsed)
                THEN /\ frame' = [frame EXCEPT
                            ![g].chosen = lastUsed,
                            ![g].selErr = IF isDisabled[lastUsed]
                                          THEN << ErrProxyNotAvailable >>
                                          ELSE NoErr]
                     /\ UNCHANGED << lastUsed, index, isActive >>
                ELSE \E out \in Select(owner, ApplicableSelect(owner)) :
                        /\ index' = [index EXCEPT ![owner] = out.index]
                        /\ IF out.err # NoErr
                           THEN /\ frame' = [frame EXCEPT ![g].selErr =
                                                proxyNotAvailable(out.err)]
                                /\ UNCHANGED << lastUsed, isActive >>
                           ELSE IF out.proxy = Nil
                           THEN /\ frame' = [frame EXCEPT ![g].selErr =
                                                << ErrProxyNotAvailable >>]
                                /\ UNCHANGED << lastUsed, isActive >>
                           ELSE /\ isActive' = Activate(Deactivate(isActive, lastUsed),
                                                        out.proxy)
                                /\ lastUsed' = out.proxy
                                /\ frame' = [frame EXCEPT
                                      ![g].chosen = out.proxy,
                                      ![g].selErr = IF isDisabled[out.proxy]
                                                    THEN << ErrProxyNotAvailable >>
                                                    ELSE NoErr]
    /\ UNCHANGED << configVars, isDisabled, statsVars, statsMu, issued, history,
                    rwmu, ret >>

\* resp, err := pt.baseTransport.RoundTrip(req): the selector's error, or
\* what the request through the proxy gave, a response or an error
RtBase(g) ==
    /\ pc[g] = "rt_base"
    /\ pc' = [pc EXCEPT ![g] = "rt_lastUsed"]
    /\ IF frame[g].selErr # NoErr
       THEN frame' = [frame EXCEPT ![g].resp = Nil, ![g].err = "err"]
       ELSE \E response \in Responses, err \in Errs :
               /\ (response = Nil) # (err = Nil)
               /\ frame' = [frame EXCEPT ![g].resp = response, ![g].err = err]
    /\ UNCHANGED << managerVars, flagVars, statsVars, statsMu, issued, history,
                    rwmu, ret >>

\* proxy := pt.pm.LastUsed()
RtLastUsed(g) ==
    /\ pc[g] = "rt_lastUsed"
    /\ frame' = [frame EXCEPT ![g].proxy = LastUsed]
    /\ pc' = [pc EXCEPT ![g] = "rt_update"]
    /\ UNCHANGED << managerVars, flagVars, statsVars, statsMu, issued, history,
                    rwmu, ret >>

\* if proxy != nil { proxy.Update(resp, err) }; return resp, err.  The
\* history keeps, per request, the proxy GetNextProxy chose for it and the
\* proxy its outcome was recorded on
RtUpdate(g) ==
    LET f == frame[g]
    IN  /\ pc[g] = "rt_update"
        /\ IF f.proxy # Nil
           THEN /\ totalRequests' = [totalRequests EXCEPT ![f.proxy] = @ + 1]
                /\ IF IsSuccess(f.resp, f.err)
                   THEN /\ successCount' = [successCount EXCEPT ![f.proxy] = @ + 1]
                        /\ UNCHANGED errorCount
                   ELSE /\ errorCount' = [errorCount EXCEPT ![f.proxy] = @ + 1]
                        /\ UNCHANGED successCount
                /\ statsLastUsed' = [statsLastUsed EXCEPT ![f.proxy] = "now"]
           ELSE UNCHANGED statsVars
        /\ history' = Append(history,
                         [op |-> "RoundTrip", domain |-> f.domain,
                          chosen |-> f.chosen, selErr |-> f.selErr,
                          recorded |-> f.proxy])
        /\ ret' = [op |-> "RoundTrip", resp |-> f.resp, err |-> f.err]
        /\ pc' = [pc EXCEPT ![g] = "idle"]
        /\ frame' = [frame EXCEPT ![g] = idleFrame]
        /\ UNCHANGED << managerVars, flagVars, statsMu, issued, rwmu >>

\* a client built by NewClient over a manager with the global pool [A] or
\* [A, B], no resources, the default strategies
InitTransport ==
    /\ InitProxyState
    /\ InitThreads
    /\ proxies \in { << "A" >>, << "A", "B" >> }
    /\ resources = << >>
    /\ lastUsed = Nil
    /\ rotationStrategy = DefaultRotationStrategy
    /\ selectStrategy = DefaultSelectStrategy
    /\ rcProxies = NewRcProxies
    /\ index = NewIndex

NextTransport ==
    \/ \E g \in Threads : RtCall(g, BCom)
    \/ \E g \in Threads : RtSelector(g)
    \/ \E g \in Threads : RtBase(g)
    \/ \E g \in Threads : RtLastUsed(g)
    \/ \E g \in Threads : RtUpdate(g)

SpecTransport == InitTransport /\ [][NextTransport]_vars

----------------------------------------------------------------------------
(* The locks the operations take, in the order they take them              *)

\* ProxyManagerImpl.pMu is named by Manager and ResourceConfig.mu by the
\* resource; ProxyManagerImpl.rMu and ProxyManagerImpl.mu
rMu == "rMu"
mu == "mu"
\* Proxy.mu and ProxyStats.mu of the proxies A and B
ProxyMu == [A |-> "A.mu", B |-> "B.mu"]
ProxyStatsMu == [A |-> "A.stats.mu", B |-> "B.stats.mu"]
LockProxies == DOMAIN ProxyMu
LockNames ==
    {Manager, "R1", rMu, mu, SelectMu}
        \cup { ProxyMu[p] : p \in LockProxies }
        \cup { ProxyStatsMu[p] : p \in LockProxies }

Instr(kind, m) == [kind |-> kind, m |-> m]
\* m.RLock(); defer m.RUnlock(), around code that takes no lock
ReadSection(m) == << Instr("RLock", m), Instr("RUnlock", m) >>
\* m.Lock(); defer m.Unlock(), around code that takes no lock
WriteSection(m) == << Instr("Lock", m), Instr("Unlock", m) >>

\* ResourceConfig.CompareDomain: rc.Domain(), then, unless the domains are
\* equal, rc.mu.RLock() for the suffix test
CompareDomainLocks_Nested(r, equal) ==
    << Instr("RLock", r), Instr("RLock", r), Instr("RUnlock", r),
       Instr("RUnlock", r) >>
CompareDomainLocks(r, equal) ==
    IF equal THEN ReadSection(r) ELSE ReadSection(r) \o ReadSection(r)

\* getResourceByDomain on the resource list [R1]: CompareDomain is called
\* with pm.rMu held for reading
getResourceByDomainLocks(equal) ==
    << Instr("RLock", rMu) >> \o CompareDomainLocks("R1", equal)
        \o << Instr("RUnlock", rMu) >>

\* Proxy.IsDisabled, Proxy.IsActive, Proxy.Stats
ProxyReadLocks(p) == ReadSection(ProxyMu[p])
\* DefaultRotationStrategy.ShouldRotate(p): p.IsDisabled(), then
\* p.Stats().ErrorCount()
ShouldRotateLocks(p) ==
    ProxyReadLocks(p) \o ProxyReadLocks(p) \o ReadSection(ProxyStatsMu[p])

\* Select on the pool [A, B] of owner whose A is active: GetProxies,
\* RemoveActiveProxyFilter, RemoveDisabledFilter, and the cursor's mutex
\* when the strategy is RoundRobinSelect
SelectLocks(owner, roundRobin) ==
    ReadSection(owner) \o ProxyReadLocks("A") \o ProxyReadLocks("B")
        \o ProxyReadLocks("B")
        \o (IF roundRobin THEN WriteSection(SelectMu) ELSE << >>)

\* GetNextProxy that returns lastUsed = A
GetNextProxyReuseLocks(equal) ==
    getResourceByDomainLocks(equal) \o ReadSection(mu) \o ShouldRotateLocks("A")

\* GetNextProxy that rotates from lastUsed = A to B: deactivate, activate
\* and the store of pm.lastUsed
GetNextProxyReselectLocks(equal, owner, roundRobin) ==
    getResourceByDomainLocks(equal) \o ReadSection(mu) \o ShouldRotateLocks("A")
        \o SelectLocks(owner, roundRobin)
        \o WriteSection(ProxyMu["A"]) \o WriteSection(ProxyMu["B"])
        \o WriteSection(mu)

\* the calls of the public operations, each with the lock operations it
\* performs in program order
LockCalls ==
    { [op |-> "GetNextProxy", prog |-> GetNextProxyReuseLocks(equal)] :
        equal \in BOOLEAN }
    \cup { [op |-> "GetNextProxy",
            prog |-> GetNextProxyReselectLocks(TRUE, "R1", TRUE)],
           [op |-> "GetNextProxy",
            prog |-> GetNextProxyReselectLocks(FALSE, Manager, FALSE)],
           [op |-> "LastUsed", prog |-> ReadSection(mu)],
           [op |-> "GetProxies", prog |-> ReadSection(Manager)],
           [op |-> "AddProxies", prog |-> WriteSection(Manager)],
           [op |-> "AddResources", prog |-> WriteSection(rMu)],
           [op |-> "AddResourceProxies",
            prog |-> getResourceByDomainLocks(TRUE) \o WriteSection("R1")],
           [op |-> "AddResourceProxies", prog |-> getResourceByDomainLocks(FALSE)],
           [op |-> "CompareDomain", prog |-> CompareDomainLocks("R1", FALSE)] }
    \cup { [op |-> "Update",
            prog |-> ProxyReadLocks(p) \o WriteSection(ProxyStatsMu[p])] :
             p \in LockProxies }
    \cup { [op |-> op, prog |-> WriteSection(ProxyMu[p])] :
             op \in {"Enable", "Disable"}, p \in LockProxies }

\* the calls issued and not yet returned
LockCallsPending == { g \in Threads : pc[g] # "idle" }

\* the lock operation goroutine g is at
Current(g) == frame[g].prog[frame[g].ip]
AtInstr(g, kind) ==
    /\ pc[g] = "lk_run"
    /\ frame[g].ip <= Len(frame[g].prog)
    /\ Current(g).kind = kind

\* goroutine g is inside m.Lock(): it excludes the other writers and the
\* readers that arrive, and waits for the readers holding m to leave
Announced(g, m) ==
    pc[g] = "lk_run" /\ frame[g].announced /\ Current(g).m = m

Advance(g) == frame' = [frame EXCEPT ![g].ip = @ + 1, ![g].announced = FALSE]

\* an operation is called
LkCall(g, call) ==
    /\ pc[g] = "idle"
    /\ Len(history) + Cardinality(LockCallsPending) < MaxLockCalls
    /\ pc' = [pc EXCEPT ![g] = "lk_run"]
    /\ frame' = [frame EXCEPT ![g] =
                    [op |-> call.op, prog |-> call.prog, ip |-> 1,
                     announced |-> FALSE]]
    /\ UNCHANGED << managerVars, flagVars, statsVars, statsMu, issued, history,
                    rwmu, ret >>

\* m.RLock(): blocks while a writer holds m or is inside m.Lock()
LkRLock(g) ==
    /\ AtInstr(g, "RLock")
    /\ rwmu[Current(g).m].writer = Nil
    /\ \A h \in Threads : ~Announced(h, Current(g).m)
    /\ rwmu' = [rwmu EXCEPT ![Current(g).m].readers = @ \cup {g}]
    /\ Advance(g)
    /\ UNCHANGED << managerVars, flagVars, statsVars, statsMu, pc, issued,
                    history, ret >>

\* m.RUnlock()
LkRUnlock(g) ==
    /\ AtInstr(g, "RUnlock")
    /\ rwmu' = [rwmu EXCEPT ![Current(g).m].readers = @ \ {g}]
    /\ Advance(g)
    /\ UNCHANGED << managerVars, flagVars, statsVars, statsMu, pc, issued,
                    history, ret >>

\* m.Lock(), its first half: the writer gets ahead of the other writers and
\* of the readers to come
LkAnnounce(g) ==
    /\ AtInstr(g, "Lock")
    /\ ~frame[g].announced
    /\ rwmu[Current(g).m].writer = Nil
    /\ \A h \in Threads : ~Announced(h, Current(g).m)
    /\ frame' = [frame EXCEPT ![g].announced = TRUE]
    /\ UNCHANGED << managerVars, flagVars, statsVars, statsMu, pc, issued,
                    history, rwmu, ret >>

\* m.Lock(), its second half: the readers holding m have left
LkLock(g) ==
    /\ AtInstr(g, "Lock")
    /\ frame[g].announced
    /\ rwmu[Current(g).m].readers = {}
    /\ rwmu' = [rwmu EXCEPT ![Current(g).m].writer = g]
    /\ Advance(g)
    /\ UNCHANGED << managerVars, flagVars, statsVars, statsMu, pc, issued,
                    history, ret >>

\* m.Unlock()
LkUnlock(g) ==
    /\ AtInstr(g, "Unlock")
    /\ rwmu' = [rwmu EXCEPT ![Current(g).m].writer = Nil]
    /\ Advance(g)
    /\ UNCHANGED << managerVars, flagVars, statsVars, statsMu, pc, issued,
                    history, ret >>

\* the operation returns; what it returns is not followed here
LkReturn(g) ==
    /\ pc[g] = "lk_run"
    /\ frame[g].ip > Len(frame[g].prog)
    /\ pc' = [pc EXCEPT ![g] = "idle"]
    /\ frame' = [frame EXCEPT ![g] = idleFrame]
    /\ history' = Append(history, [op |-> "return"])
    /\ UNCHANGED << managerVars, flagVars, statsVars, statsMu, issued, rwmu, ret >>

\* a manager with the global pool [A, B] and the resource R1 holding [A, B]
InitLocks ==
    /\ InitProxyState
    /\ pc = [g \in Threads |-> "idle"]
    /\ frame = [g \in Threads |-> idleFrame]
    /\ history = << >>
    /\ rwmu = [m \in LockNames |-> Unlocked]
    /\ ret = NoRet
    /\ proxies = << "A", "B" >>
    /\ resources = << "R1" >>
    /\ lastUsed = "A"
    /\ rotationStrategy = DefaultRotationStrategy
    /\ selectStrategy = DefaultSelectStrategy
    /\ rcProxies = [NewRcProxies EXCEPT !["R1"] = << "A", "B" >>]
    /\ index = NewIndex

\* the steps of goroutine g inside a call
LkStep(g) ==
    \/ LkRLock(g)
    \/ LkRUnlock(g)
    \/ LkAnnounce(g)
    \/ LkLock(g)
    \/ LkUnlock(g)
    \/ LkReturn(g)

NextLocks ==
    \/ \E g \in Threads, call \in LockCalls : LkCall(g, call)
    \/ \E g \in Threads : LkRLock(g)
    \/ \E g \in Threads : LkRUnlock(g)
    \/ \E g \in Threads : LkAnnounce(g)
    \/ \E g \in Threads : LkLock(g)
    \/ \E g \in Threads : LkUnlock(g)
    \/ \E g \in Threads : LkReturn(g)

SpecLocks == InitLocks /\ [][NextLocks]_vars

\* the scheduler runs every goroutine that can take a step
SpecLocksFair == SpecLocks /\ \A g \in Threads : WF_vars(LkStep(g))

----------------------------------------------------------------------------
(* Claims about ProxyStats *)

\* C9: for every proxy, whenever the stats lock is not held by a writer
\* (the states any reader holding the lock can see, between and during
\* concurrent Update calls), totalRequests = successCount + errorCount.
C9_TotalIsSum ==
    \A p \in Proxies :
        statsMu[p] = Free => totalRequests[p] = successCount[p] + errorCount[p]

\* an Update has completed on a proxy while another Update call on the same
\* proxy is waiting for the lock, and the reader sees the lock free
C9_Witness ==
    \E p \in Proxies :
        /\ statsMu[p] = Free
        /\ totalRequests[p] >= 1
        /\ errorCount[p] >= 1
        /\ \E g \in Threads : pc[g] = "upd_lock" /\ frame[g].proxy = p

UpdatesInFlight(p) ==
    { g \in Threads : frame[g].op = "Update" /\ frame[g].proxy = p }

\* C10: once the k Update calls issued on a proxy have all returned, s of
\* them reporting success, TotalRequests = k, SuccessCount = s and
\* ErrorCount = k - s.
C10_NoLostUpdate ==
    \A p \in Proxies :
        UpdatesInFlight(p) = {} =>
            /\ totalRequests[p] = issued[p].success + issued[p].error
            /\ successCount[p] = issued[p].success
            /\ errorCount[p] = issued[p].error

\* three Update calls on one proxy have returned, of both outcomes, one of
\* them a response delivered together with an error
C10_Witness ==
    \E p \in Proxies :
        /\ UpdatesInFlight(p) = {}
        /\ issued[p].success >= 1
        /\ issued[p].error >= 2
        /\ totalRequests[p] = 3

----------------------------------------------------------------------------
(* Claims about ProxyManagerImpl under non-overlapping calls *)

Active == { p \in Proxies : isActive[p] }

Range(seq) == { seq[i] : i \in 1..Len(seq) }

DefaultStrategies ==
    /\ rotationStrategy = DefaultRotationStrategy
    /\ selectStrategy = DefaultSelectStrategy

ReturnedProxy ==
    ret.op = "GetNextProxy" /\ ret.err = NoErr

\* C2: after any sequence of non-overlapping calls at most one proxy is
\* active, and a proxy is active if and only if it is lastUsed.
C2_ActiveIsLastUsed ==
    /\ Cardinality(Active) <= 1
    /\ \A p \in Proxies : isActive[p] <=> p = lastUsed

\* a call has rotated away from a proxy that logged an error: the proxy it
\* chose is the only active one
C2_Witness ==
    /\ ReturnedProxy /\ ret.reselect
    /\ lastUsed = "B" /\ Active = {"B"}
    /\ errorCount["A"] = 1

\* the scenario of C3: the resource for "a.com" holds [C], the global pool
\* holds [A, B], default rotation and selection everywhere
C3_Scenario ==
    /\ proxies = << "A", "B" >>
    /\ resources = << "R1" >>
    /\ rcProxies["R1"] = << "C" >>
    /\ DefaultStrategies

\* C3 as claimed: in the scenario every successful GetNextProxy("a.com")
\* returns C and every successful GetNextProxy("b.com") returns A or B.
C3_Original ==
    C3_Scenario /\ ReturnedProxy =>
        /\ ret.domain = ACom => ret.proxy = "C"
        /\ ret.domain = BCom => ret.proxy \in {"A", "B"}

\* C3 as amended: in the scenario every successful GetNextProxy("a.com") that
\* invokes the selection strategy returns C, every successful
\* GetNextProxy("b.com") that invokes it returns A or B, and a call that does
\* not invoke it returns the manager-wide lastUsed, whichever scope chose it.
C3_SelectsFromScope ==
    C3_Scenario /\ ReturnedProxy =>
        /\ ret.reselect /\ ret.domain = ACom => ret.proxy = "C"
        /\ ret.reselect /\ ret.domain = BCom => ret.proxy \in {"A", "B"}
        /\ ~ret.reselect => ret.proxy = lastUsed

\* GetNextProxy("a.com") has rotated away from A, which the global scope had
\* chosen and which then logged an error, and has selected C
C3_Witness ==
    /\ C3_Scenario /\ ReturnedProxy
    /\ ret.reselect /\ ret.domain = ACom /\ ret.proxy = "C"
    /\ errorCount["A"] = 1 /\ errorCount["C"] = 0

\* the scenario of C4: global pool [A, B], no resources, default rotation
\* and selection, no proxy of the pool disabled
C4_Scenario ==
    /\ proxies = << "A", "B" >>
    /\ resources = << >>
    /\ DefaultStrategies
    /\ ~isDisabled["A"] /\ ~isDisabled["B"]

OtherOf(p) == IF p = "A" THEN "B" ELSE "A"

\* C4: in the scenario the first GetNextProxy returns A or B and marks it
\* active; once one error outcome has been reported on that proxy, the next
\* GetNextProxy returns the other proxy, which is then lastUsed and the only
\* active proxy.
C4_RotatesAway ==
    [][ \A domain \in Domains :
          C4_Scenario /\ GetNextProxy(domain) =>
            /\ lastUsed = Nil =>
                 /\ ret'.err = NoErr
                 /\ ret'.proxy \in {"A", "B"}
                 /\ isActive'[ret'.proxy]
            /\ lastUsed # Nil /\ errorCount[lastUsed] = 1 =>
                 /\ ret'.err = NoErr
                 /\ ret'.proxy = OtherOf(lastUsed)
                 /\ lastUsed' = OtherOf(lastUsed)
                 /\ { p \in Proxies : isActive'[p] } = { OtherOf(lastUsed) } ]_vars

\* the second call of the scenario has returned B after A logged one error
C4_Witness ==
    /\ C4_Scenario /\ ReturnedProxy
    /\ ret.proxy = "B" /\ lastUsed = "B"
    /\ errorCount["A"] = 1 /\ totalRequests["B"] = 0
    /\ isActive["B"] /\ ~isActive["A"]

\* C5: while the global pool and the resource list are both empty, lastUsed
\* is nil and the last GetNextProxy call returned no proxy and the empty-pool
\* error wrapped as proxy-not-available.  (Neither list ever shrinks, so both
\* were empty at every earlier call.)
C5_EmptyPool ==
    Len(proxies) = 0 /\ Len(resources) = 0 =>
        /\ lastUsed = Nil
        /\ ret.op = "GetNextProxy" =>
             /\ ret.proxy = Nil
             /\ ret.err = << ErrProxyNotAvailable, ErrEmptyProxyList >>

\* GetNextProxy has been called on a manager with nothing configured
C5_Witness ==
    /\ Len(proxies) = 0 /\ Len(resources) = 0
    /\ ret.op = "GetNextProxy"
    /\ ErrorsIs(ret.err, ErrEmptyProxyList)
    /\ ErrorsIs(ret.err, ErrProxyNotAvailable)

\* the step is a GetNextProxy(domain) call
IsGetNextProxy(domain) ==
    /\ ret'.op = "GetNextProxy"
    /\ ret'.domain = domain
    /\ GetNextProxy(domain)

\* the first resource of the list, in insertion order, that matches domain;
\* the manager when none matches
FirstMatch(domain) ==
    LET matching == { i \in 1..Len(resources) : Matches[resources[i]][domain] }
    IN  IF matching = {} THEN Manager
        ELSE resources[CHOOSE i \in matching : \A j \in matching : i <= j]

\* C6: a GetNextProxy call made when lastUsed is non-nil and the applicable
\* rotation strategy returns false for it returns lastUsed without invoking
\* a selection strategy, and leaves lastUsed, all flags, all statistics and
\* all round-robin cursors unchanged.
C6_ReuseChangesNothing ==
    [][ \A domain \in Domains :
          /\ IsGetNextProxy(domain)
          /\ lastUsed # Nil
          /\ ~ShouldRotate(ApplicableRotation(FirstMatch(domain)), lastUsed)
          => /\ ret'.proxy = lastUsed
             /\ ret'.err = NoErr
             /\ ~ret'.reselect
             /\ UNCHANGED << lastUsed, isActive, isDisabled, statsVars, index >> ]_vars

\* a call outside the resource's scope has kept the proxy that a round-robin
\* selection had chosen, the cursor staying where that selection left it
C6_Witness ==
    /\ ReturnedProxy /\ ~ret.reselect
    /\ ret.domain = BCom
    /\ ret.proxy = lastUsed
    /\ index["R2"] = 0
    /\ isActive[lastUsed]

\* C7: a GetNextProxy call that must select (lastUsed is nil or the applicable
\* rotation strategy returns true) and whose selection strategy fails returns
\* no proxy and proxy-not-available wrapping the selection error, and leaves
\* lastUsed and every active flag unchanged.
C7_SelectFailurePropagates ==
    [][ \A domain \in Domains :
          /\ IsGetNextProxy(domain)
          /\ ~(Len(proxies) = 0 /\ Len(resources) = 0)
          /\ lastUsed = Nil
                \/ ShouldRotate(ApplicableRotation(FirstMatch(domain)), lastUsed)
          /\ \A out \in Select(FirstMatch(domain),
                               ApplicableSelect(FirstMatch(domain))) :
                out.err # NoErr
          => /\ ret'.proxy = Nil
             /\ ret'.err = << ErrProxyNotAvailable, ErrFailedSelectProxy >>
             /\ ret'.reselect
             /\ UNCHANGED << lastUsed, isActive >> ]_vars

\* a selection has failed while a proxy was in use: that proxy is still
\* lastUsed and still active
C7_Witness ==
    /\ ret.op = "GetNextProxy" /\ ret.reselect
    /\ ret.proxy = Nil
    /\ ErrorsIs(ret.err, ErrFailedSelectProxy)
    /\ lastUsed # Nil /\ isActive[lastUsed]

\* C8: GetNextProxy decides in the scope of the first matching resource in
\* insertion order, and in the global scope only when none matches: a
\* selection returns a proxy of that scope's pool and moves no other scope's
\* cursor, and the call keeps lastUsed exactly when that scope's rotation
\* strategy does not rotate.  AddResourceProxies appends to the pool of the
\* first matching resource and to no other.
C8_FirstMatchWins ==
    [][ /\ \A domain \in Domains :
            IsGetNextProxy(domain) /\ ~(Len(proxies) = 0 /\ Len(resources) = 0) =>
              /\ ret'.reselect /\ ret'.err = NoErr =>
                    ret'.proxy \in Range(GetProxies(FirstMatch(domain)))
              /\ \A o \in Owners \ {FirstMatch(domain)} : index'[o] = index[o]
              /\ ~ret'.reselect <=>
                    /\ lastUsed # Nil
                    /\ ~ShouldRotate(ApplicableRotation(FirstMatch(domain)), lastUsed)
        /\ \A domain \in Domains, ps \in Batches :
            /\ ret'.op = "AddResourceProxies"
            /\ AddResourceProxies(domain, ps)
            /\ FirstMatch(domain) # Manager
            =>
              rcProxies' = [rcProxies EXCEPT ![FirstMatch(domain)] = @ \o ps] ]_vars

\* with two resources matching "a.com", R2 inserted first, the proxies added
\* for the domain went to R2 and a selection for it returned one of them
C8_Witness ==
    /\ resources = << "R2", "R1" >>
    /\ rcProxies["R2"] = << "A", "B" >> /\ rcProxies["R1"] = << "C" >>
    /\ ReturnedProxy /\ ret.reselect
    /\ ret.domain = ACom /\ ret.proxy = "A"

----------------------------------------------------------------------------
(* Claims about racing GetNextProxy calls *)

\* goroutine g returns from GetNextProxy with a proxy in this step
GnpReturnsProxy(g) ==
    /\ pc[g] \in {"gnp_rotate", "gnp_store"}
    /\ pc'[g] = "idle"
    /\ ret'.op = "GetNextProxy"
    /\ ret'.err = NoErr

\* C1: whenever a GetNextProxy call returns a proxy without error, under any
\* interleaving of concurrent GetNextProxy calls, exactly one proxy of the
\* manager's pools is active at that moment and it is the returned proxy.
C1_ExactlyOneActive ==
    [][ \A g \in Threads :
          GnpReturnsProxy(g) /\ SumOver(totalRequests, Proxies) = 0 =>
            { p \in Proxies : isActive'[p] } = { ret'.proxy } ]_vars

----------------------------------------------------------------------------
(* Claims about the selection strategies *)

\* C11: on a fresh RoundRobinSelect over an unfiltered pool of n >= 1
\* proxies that does not change, the i-th Select call returned the proxy at
\* pool index (i - 1) mod n, for every call made so far.
C11_RoundRobinOrder ==
    selectStrategy = NewRoundRobinSelect(<< >>) /\ Len(proxies) >= 1 =>
        \A i \in 1..Len(history) :
            history[i] = proxies[((i - 1) % Len(proxies)) + 1]

\* two full windows over a pool of three: each proxy once in pool order,
\* then again
C11_Witness ==
    /\ selectStrategy = NewRoundRobinSelect(<< >>)
    /\ proxies = << "B", "C", "A" >>
    /\ history = << "B", "C", "A", "B", "C", "A" >>

\* C12: a Select call of RandomSelect or RoundRobinSelect returns the
\* failed-selection error exactly when the provider's filtered list is empty
\* at the call, then with no proxy; otherwise it returns no error and a
\* member of that list.
C12_FailsIffEmpty ==
    [][ StrategySelect =>
          LET ps == FilteredGetProxies(Manager, selectStrategy.filters)
          IN  /\ ErrorsIs(ret'.err, ErrFailedSelectProxy) <=> Len(ps) = 0
              /\ Len(ps) = 0 => ret'.proxy = Nil
              /\ Len(ps) # 0 => ret'.err = NoErr /\ ret'.proxy \in Range(ps) ]_vars

\* a Select of the default strategy over a pool of three has failed because
\* every proxy is disabled and the filters left nothing
C12_Witness ==
    /\ ret.op = "Select"
    /\ Len(proxies) = 3
    /\ selectStrategy = DefaultSelectStrategy
    /\ \A p \in Proxies : isDisabled[p]
    /\ ErrorsIs(ret.err, ErrFailedSelectProxy)

----------------------------------------------------------------------------
(* Claims about the rotation strategies *)

\* C13: for every proxy p and list S of sub-strategies, Composite(OR, S)
\* rotates p iff S is non-empty and some member of S rotates p, and
\* Composite(AND, S) rotates p iff S is non-empty and every member of S
\* rotates p; with S empty both answer false.
C13_CompositeLogic ==
    ret.op = "ShouldRotate" =>
        LET S == rotationStrategy.strategies
            members == { ShouldRotate(S[i], ret.proxy) : i \in 1..Len(S) }
        IN  /\ rotationStrategy.logic = RotationLogicOR =>
                  (ret.result <=> Len(S) > 0 /\ TRUE \in members)
            /\ rotationStrategy.logic = RotationLogicAND =>
                  (ret.result <=> Len(S) > 0 /\ FALSE \notin members)
            /\ Len(S) = 0 => ~ret.result

\* an AND of two sub-strategies that both rotate the disabled proxy A, which
\* has one error, has answered true
C13_Witness ==
    /\ ret.op = "ShouldRotate" /\ ret.proxy = "A" /\ ret.result
    /\ rotationStrategy =
          NewCompositeRotationStrategy(RotationLogicAND,
              << OnlyEnabledRotation, NewErrorThresholdRotation(1) >>)
    /\ isDisabled["A"] /\ errorCount["A"] = 1

\* C14: ErrorThresholdRotation(t) rotates p iff p's error count is at least
\* t, and once it rotates p it still does after any Update, Enable, Disable,
\* GetNextProxy or pool change: the error count never goes down.
C14_ErrorThresholdMonotonic ==
    [][ \A p \in Proxies, t \in 0..MaxSize :
          /\ ShouldRotate(NewErrorThresholdRotation(t), p) <=> errorCount[p] >= t
          /\ ShouldRotate(NewErrorThresholdRotation(t), p)' <=> errorCount'[p] >= t
          /\ ShouldRotate(NewErrorThresholdRotation(t), p)
                => ShouldRotate(NewErrorThresholdRotation(t), p)'
          /\ errorCount'[p] >= errorCount[p] ]_vars

\* C reached the threshold of one error, then served a request with success
\* and went through a GetNextProxy call that tried to rotate away from it,
\* and the strategy still rotates it
C14_Witness ==
    /\ errorCount["C"] = 1 /\ successCount["C"] = 1
    /\ lastUsed = "C" /\ ret.op = "GetNextProxy" /\ ret.reselect
    /\ ShouldRotate(NewErrorThresholdRotation(1), "C")
    /\ ~ShouldRotate(NewErrorThresholdRotation(2), "C")

----------------------------------------------------------------------------
(* Claims about the default policy *)

\* every scope of the manager has the default rotation and selection
DefaultEverywhere ==
    /\ DefaultStrategies
    /\ \A i \in 1..Len(resources) :
          /\ rcRotationStrategy[resources[i]] = DefaultRotationStrategy
          /\ rcSelectStrategy[resources[i]] = DefaultSelectStrategy

\* C15: with the default rotation and selection in every scope, a
\* GetNextProxy call that reselects returns a proxy other than the lastUsed
\* it replaces and not disabled at the time of the call, and no successful
\* GetNextProxy call returns a proxy disabled at the time of the call.
C15_DefaultPolicy ==
    [][ \A domain \in Domains :
          IsGetNextProxy(domain) /\ DefaultEverywhere /\ ret'.err = NoErr =>
            /\ ret'.reselect => ret'.proxy # lastUsed
            /\ ~isDisabled[ret'.proxy] ]_vars

\* the default policy has chosen B out of [A, B] while A is disabled
C15_Witness ==
    /\ DefaultEverywhere /\ ReturnedProxy /\ ret.reselect
    /\ proxies = << "A", "B" >>
    /\ isDisabled["A"] /\ ret.proxy = "B" /\ lastUsed = "B"

----------------------------------------------------------------------------
(* Claims about domain matching *)

\* C16: CompareDomain(c) on a resource with normalized domain d answers true
\* iff normalize(c) = d, or subdomains are included and normalize(c) ends
\* with "." followed by d.  So the resource for "example.com" with subdomains
\* included matches "example.com", "api.example.com" and
\* "https://example.com/", and with subdomains excluded it matches
\* "example.com" and not "api.example.com".
C16_CompareDomain ==
    ret.op = "CompareDomain" =>
        LET d == rcExample[ret.resource].domain
            included == ~rcExample[ret.resource].notIgnoreSubdomains
            c == normalizeDomain(ret.domain)
        IN  /\ d = ExampleCom
            /\ ret.result <=>
                  \/ c = d
                  \/ included /\ Len(c) > Len(d)
                              /\ SubSeq(c, Len(c) - Len(d), Len(c)) = << "." >> \o d
            /\ included /\ ret.domain \in {ExampleCom, ApiExampleCom, HttpsExampleComSlash}
                  => ret.result
            /\ ~included /\ ret.domain = ExampleCom => ret.result
            /\ ~included /\ ret.domain = ApiExampleCom => ~ret.result

\* the resource built from "https://www.EXAMPLE.com/" with subdomains included
\* has matched "http://www.api.EXAMPLE.com/"
C16_Witness ==
    /\ ret.op = "CompareDomain" /\ ret.resource = "E3" /\ ret.result
    /\ ret.domain = HttpPrefix \o WwwPrefix \o ApiLabel \o ExampleComUpper \o Slash

----------------------------------------------------------------------------
(* Claims about the pools *)

\* C17: AddResourceProxies(domain, ps) returns ResourceNotFound and changes
\* no pool when no resource matches domain; otherwise it returns no error,
\* appends ps in order to the pool of the first matching resource and leaves
\* the global pool, every other resource's pool and lastUsed unchanged.
C17_AddResourceProxies ==
    [][ \A domain \in Domains, ps \in Batches :
          ret'.op = "AddResourceProxies" /\ AddResourceProxies(domain, ps) =>
            LET first == FirstMatch(domain)
            IN  /\ first = Manager =>
                      /\ ret'.err = << ErrResourceNotFound >>
                      /\ UNCHANGED << proxies, rcProxies, lastUsed >>
                /\ first # Manager =>
                      /\ ret'.err = NoErr
                      /\ rcProxies'[first] = rcProxies[first] \o ps
                      /\ \A r \in ResIds \ {first} : rcProxies'[r] = rcProxies[r]
                      /\ UNCHANGED << proxies, lastUsed >> ]_vars

\* A and B were appended after C to the pool of the resource for "a.com"
\* while C was in use
C17_Witness ==
    /\ ret.op = "AddResourceProxies" /\ ret.err = NoErr
    /\ resources = << "R1" >>
    /\ rcProxies["R1"] = << "C", "A", "B" >> /\ rcProxies["R2"] = << >>
    /\ lastUsed = "C"

\* the pool of owner after the AddProxies calls among the first j events of
\* the history, starting from the pool the owner was built with
RECURSIVE PoolAt(_, _)
PoolAt(owner, j) ==
    IF j = 0 THEN (IF owner = Manager THEN << "A", "B" >> ELSE NewRcProxies[owner])
    ELSE IF history[j].op = "AddProxies" /\ history[j].owner = owner
         THEN PoolAt(owner, j - 1) \o history[j].proxies
         ELSE PoolAt(owner, j - 1)

\* every pool holds what it was built with followed by every batch appended
\* to it so far, whole and in the order of the appends; every snapshot
\* returned is the pool as it stood after some of these appends
PoolsAreWhole ==
    /\ \A owner \in PoolOwners : GetProxies(owner) = PoolAt(owner, Len(history))
    /\ \A j \in 1..Len(history) :
          history[j].op = "GetProxies" =>
            \E k \in 0..(j - 1) : history[j].proxies = PoolAt(history[j].owner, k)

\* C18: under any interleaving of AddProxies and GetProxies calls, on the
\* manager and on a resource, no appended batch is lost, split or reordered,
\* every snapshot returned equals the pool after a whole number of appends,
\* and a snapshot once returned is never changed by a later step.
C18_WholeSnapshots ==
    [][ /\ PoolsAreWhole
        /\ PoolsAreWhole'
        /\ \A j \in 1..Len(history) : history'[j] = history[j] ]_vars

\* a GetProxies call on the manager has returned the pool as the first
\* AddProxies call left it, and a second AddProxies call, which had to wait
\* for the reader, now holds the lock and is about to grow the pool
C18_Witness ==
    /\ Len(history) = 2
    /\ history[1].op = "AddProxies" /\ history[1].owner = Manager
    /\ history[2] = [op |-> "GetProxies", owner |-> Manager,
                     proxies |-> << "A", "B" >> \o history[1].proxies]
    /\ \E g \in Threads :
          /\ pc[g] = "add_store" /\ frame[g].owner = Manager
          /\ rwmu[Manager].writer = g

----------------------------------------------------------------------------
(* Claims about lastUsed *)

\* C19: LastUsed() is nil until a GetNextProxy call succeeds (no other call
\* changes it); a failed GetNextProxy call leaves it as it was; after a
\* successful GetNextProxy call it is the proxy that call returned; once
\* non-nil it is never nil again.
C19_LastUsed ==
    [][ LET gnp == \E domain \in Domains : IsGetNextProxy(domain)
        IN  /\ gnp /\ ret'.err = NoErr => ret'.proxy # Nil /\ LastUsed' = ret'.proxy
            /\ gnp /\ ret'.err # NoErr => LastUsed' = LastUsed
            /\ ~gnp => LastUsed' = LastUsed
            /\ LastUsed # Nil => LastUsed' # Nil ]_vars

\* a GetNextProxy call has failed while C was the last used proxy, and C
\* still is
C19_Witness ==
    /\ ret.op = "GetNextProxy" /\ ret.proxy = Nil
    /\ ErrorsIs(ret.err, ErrProxyNotAvailable)
    /\ LastUsed = "C"

\* C20: when a GetNextProxy call reselects and obtains c while the lastUsed
\* it read is l, on return c is active, l is inactive unless l = c,
\* LastUsed() is c, and no proxy's statistics or disabled flag has changed.
C20_ReselectEffects ==
    [][ \A domain \in Domains :
          IsGetNextProxy(domain) /\ ret'.reselect /\ ret'.err = NoErr =>
            LET c == ret'.proxy
                l == lastUsed
            IN  /\ isActive'[c]
                /\ l # Nil /\ l # c => ~isActive'[l]
                /\ LastUsed' = c
                /\ UNCHANGED << statsVars, isDisabled >> ]_vars

\* the round-robin selection of the resource R2 has moved on from A to B:
\* B is the last used and the only active proxy
C20_Witness ==
    /\ ReturnedProxy /\ ret.reselect /\ ret.proxy = "B"
    /\ resources = << "R2", "R1" >> /\ rcProxies["R2"] = << "A", "B" >>
    /\ index["R2"] = 1
    /\ LastUsed = "B" /\ Active = {"B"}

\* C21: lastUsed is one value for all scopes.  A GetNextProxy call whose
\* scope (the first matching resource, else the manager) does not hold the
\* lastUsed proxy in its pool still returns that proxy, without selecting,
\* whenever the scope's own rotation strategy returns false for it: a
\* resource-scope call returns a proxy chosen globally, and a global-scope
\* call returns a proxy chosen in a resource scope.
C21_SharedLastUsed ==
    [][ \A domain \in Domains :
          LET first == FirstMatch(domain)
              rotation == IF first = Manager THEN rotationStrategy
                          ELSE rcRotationStrategy[first]
          IN  /\ IsGetNextProxy(domain)
              /\ lastUsed # Nil
              /\ lastUsed \notin Range(GetProxies(first))
              /\ ~ShouldRotate(rotation, lastUsed)
              => /\ ret'.proxy = lastUsed
                 /\ ret'.err = NoErr
                 /\ ~ret'.reselect
                 /\ lastUsed' = lastUsed ]_vars

\* GetNextProxy("a.com") has returned A, which a global-scope call had
\* chosen and which the pool [C] of the resource for "a.com" does not hold
C21_Witness ==
    /\ ReturnedProxy /\ ~ret.reselect
    /\ ret.domain = ACom /\ ret.proxy = "A"
    /\ resources = << "R1" >> /\ rcProxies["R1"] = << "C" >>
    /\ proxies = << "A", "B" >>
    /\ lastUsed = "A"

\* no proxy exists anywhere: the global pool and the pool of every registered
\* resource are empty
NoProxyAnywhere ==
    /\ Len(proxies) = 0
    /\ \A i \in 1..Len(resources) : Len(rcProxies[resources[i]]) = 0

\* C22 as stated: whenever no proxy exists anywhere in the manager,
\* GetNextProxy fails with ErrEmptyProxyList, also when the resource list is
\* non-empty.
C22_Original ==
    [][ \A domain \in Domains :
          IsGetNextProxy(domain) /\ NoProxyAnywhere
          => ErrorsIs(ret'.err, ErrEmptyProxyList) ]_vars

\* C22, amended: whenever no proxy exists anywhere in the manager,
\* GetNextProxy fails with proxy-not-available; the wrapped error is
\* ErrEmptyProxyList exactly when the resource list is empty too, and is the
\* selection strategy's ErrFailedSelectProxy when a resource is registered.
C22_NoProxyAnywhere ==
    [][ \A domain \in Domains :
          IsGetNextProxy(domain) /\ NoProxyAnywhere
          => /\ ret'.proxy = Nil
             /\ ret'.err = IF Len(resources) = 0
                           THEN << ErrProxyNotAvailable, ErrEmptyProxyList >>
                           ELSE << ErrProxyNotAvailable, ErrFailedSelectProxy >>
             /\ UNCHANGED << lastUsed, isActive >> ]_vars

\* GetNextProxy has failed on a manager whose only resource has an empty
\* pool and whose global pool is empty
C22_Witness ==
    /\ NoProxyAnywhere
    /\ resources = << "R2" >>
    /\ ret.op = "GetNextProxy"
    /\ ret.err = << ErrProxyNotAvailable, ErrFailedSelectProxy >>

\* C23: on a fixed unfiltered pool of n proxies, the first n Select calls of
\* a fresh RoundRobinSelect to return, however the goroutines making them
\* interleave, read n pairwise distinct cursor values and return n pairwise
\* distinct proxies, none of them failing.
C23_DistinctProxies ==
    \A i, j \in 1..Len(history) :
        i < j /\ j <= Len(proxies)
        => /\ history[i].err = NoErr /\ history[j].err = NoErr
           /\ ~history[i].panic /\ ~history[j].panic
           /\ history[i].index # history[j].index
           /\ history[i].proxy # history[j].proxy

\* three Select calls, all issued before any of them returned, have returned
\* the three proxies of the pool
C23_Witness ==
    /\ Len(proxies) = 3 /\ Len(history) = 3
    /\ \A i \in 1..3 : history[i].began = 0 /\ history[i].err = NoErr
    /\ { history[i].proxy : i \in 1..3 } = Proxies

\* C24: while the pool grows by AddProxies and the filtered snapshot shrinks
\* as proxies become active or disabled, every Select call whose snapshot is
\* non-empty reads a cursor within [0, length of its own snapshot) and
\* returns the member of that snapshot at the cursor, without indexing out
\* of range; a call whose snapshot is empty fails with ErrFailedSelectProxy.
C24_CursorInRange ==
    \A i \in 1..Len(history) :
        LET call == history[i]
        IN  IF Len(call.proxies) = 0
            THEN call.proxy = Nil /\ call.err = << ErrFailedSelectProxy >>
            ELSE /\ ~call.panic
                 /\ call.err = NoErr
                 /\ call.index \in 0..(Len(call.proxies) - 1)
                 /\ call.proxy = call.proxies[call.index + 1]

\* three Select calls have returned: the first drew from a snapshot of one
\* proxy, the second from a grown snapshot at cursor 1, and the third from a
\* snapshot shrunk to one proxy, where the cursor wrapped to 0
C24_Witness ==
    /\ Len(history) = 3
    /\ Len(history[1].proxies) = 1 /\ history[1].index = 0
    /\ Len(history[2].proxies) >= 2 /\ history[2].index = 1
    /\ Len(history[3].proxies) = 1 /\ history[3].index = 0
    /\ history[3].proxy = history[3].proxies[1]

\* proxy p passes the first n filters of the provider under test
PassesFilters(p, n) ==
    \A i \in 1..n :
        /\ selectStrategy.filters[i] = "RemoveActiveProxyFilter" => ~isActive[p]
        /\ selectStrategy.filters[i] = "RemoveDisabledFilter" => ~isDisabled[p]

\* the first n filters of the provider under test leave nothing of the pool
EmptiedBy(n) == \A i \in 1..Len(proxies) : ~PassesFilters(proxies[i], n)

\* C25: FilteredSelectProvider.GetProxies returns the subsequence of the
\* source snapshot made of the proxies that pass every filter, in source
\* order, nothing added and nothing repeated beyond the source; with the two
\* built-in filters these are the proxies neither active nor disabled; and
\* the filters are applied in order up to the first one that leaves an
\* empty result, after which none is applied and the result is empty.
C25_FilteredSnapshot ==
    ret.op = "FilteredSelectProvider.GetProxies" =>
        LET filters == selectStrategy.filters
            emptying == { n \in 1..Len(filters) : EmptiedBy(n) }
        IN  /\ ret.proxies =
                 SelectSeq(proxies, LAMBDA p : PassesFilters(p, Len(filters)))
            /\ FilterNames \subseteq Range(filters) =>
                 \A i \in 1..Len(ret.proxies) :
                    ~isActive[ret.proxies[i]] /\ ~isDisabled[ret.proxies[i]]
            /\ IF emptying = {}
               THEN ret.applied = Len(filters)
               ELSE /\ ret.proxies = << >>
                    /\ \A n \in emptying : ret.applied <= n
                    /\ ret.applied \in emptying

\* the provider with both built-in filters has returned [C, C] from the
\* snapshot [C, A, C] whose A is active and disabled
C25_Witness ==
    /\ ret.op = "FilteredSelectProvider.GetProxies"
    /\ selectStrategy.filters = << "RemoveActiveProxyFilter", "RemoveDisabledFilter" >>
    /\ proxies = << "C", "A", "C" >>
    /\ isActive["A"] /\ isDisabled["A"] /\ ~isActive["C"] /\ ~isDisabled["C"]
    /\ ret.proxies = << "C", "C" >>
    /\ ret.applied = 2

\* C26: a resource whose domain is the empty string, subdomains included,
\* matches a candidate exactly when the candidate normalizes to the empty
\* string: the suffix rule never makes it match.
C26_EmptyDomain ==
    /\ ret.op = "CompareDomain"
    /\ ret.resource.domain = EmptyStr
    /\ ret.resource.ignoreSubdomains
    => (ret.result <=> normalizeDomain(ret.domain) = EmptyStr)

\* C27: a resource constructed from the domain string d, with either value
\* of the normalizeDomain flag, matches the candidate d.
C27_MatchesOwnDomain ==
    /\ ret.op = "CompareDomain"
    /\ ret.domain = ret.resource.domain
    => ret.result

\* C28: every read of the manager's global proxy slice is made while
\* holding pMu, so it never overlaps a write by AddProxies: no goroutine is
\* about to read pm.proxies in GetNextProxy while another goroutine, inside
\* AddProxies with pMu held for writing, is about to store the grown slice.
C28_ReadsUnderLock ==
    \A g, h \in Threads :
        /\ pc[g] = "gnp_check"
        /\ pc[h] = "add_store" /\ frame[h].owner = Manager
        => \/ g \in rwmu[Manager].readers
           \/ rwmu[Manager].writer # h

\* C29: with the default strategies, no resources and a global pool of two
\* proxies never disabled, no GetNextProxy call fails, however the
\* GetNextProxy and Update calls of the goroutines interleave.
C29_NeverFails ==
    ret.op = "GetNextProxy" => ret.err = NoErr /\ ret.proxy \in Range(proxies)

\* C30: with the default strategies and no resources, once the only proxy
\* of the global pool is lastUsed and has recorded an error, every
\* GetNextProxy call fails with proxy-not-available from the selection
\* strategy and leaves lastUsed that proxy, still marked active; when the
\* pool holds another enabled proxy, the call succeeds with an enabled proxy
\* other than the previous lastUsed.
C30_SingleProxyStuck ==
    [][ \A domain \in Domains :
          /\ IsGetNextProxy(domain)
          /\ DefaultStrategies
          /\ resources = << >>
          /\ lastUsed # Nil
          /\ lastUsed \in Range(proxies)
          /\ errorCount[lastUsed] >= 1
          => IF Len(proxies) = 1
             THEN /\ ret'.proxy = Nil
                  /\ ret'.err = << ErrProxyNotAvailable, ErrFailedSelectProxy >>
                  /\ lastUsed' = lastUsed
                  /\ isActive[lastUsed] /\ isActive' = isActive
             ELSE (\E p \in Range(proxies) : p # lastUsed /\ ~isDisabled[p])
                  => /\ ret'.err = NoErr
                     /\ ret'.proxy \in Range(proxies) \ {lastUsed}
                     /\ ~isDisabled[ret'.proxy]
                     /\ lastUsed' = ret'.proxy ]_vars

\* GetNextProxy has failed on the pool [C] whose proxy C is lastUsed, active
\* and has one error
C30_Witness ==
    /\ DefaultStrategies
    /\ resources = << >>
    /\ proxies = << "C" >>
    /\ lastUsed = "C" /\ isActive["C"] /\ ~isDisabled["C"]
    /\ errorCount["C"] = 1
    /\ ret.op = "GetNextProxy"
    /\ ret.err = << ErrProxyNotAvailable, ErrFailedSelectProxy >>

\* C31: of the requests sent concurrently through one ProxyTransport, each
\* has its outcome recorded on the proxy GetNextProxy chose for that request,
\* and a request for which GetNextProxy failed has no outcome recorded on
\* any proxy.
C31_OutcomeOnChosen ==
    \A i \in 1..Len(history) :
        history[i].op = "RoundTrip" => history[i].recorded = history[i].chosen

\* C32: under fair scheduling every call of GetNextProxy, LastUsed,
\* GetProxies, AddProxies, AddResources, AddResourceProxies, CompareDomain,
\* Update, Enable and Disable returns, whatever the other goroutines call:
\* no goroutine waits for a lock forever.
C32_Terminates ==
    \A g \in Threads : (pc[g] # "idle") ~> (pc[g] = "idle")

\* g1 holds pm.rMu and the resource's lock for reading, one inside the
\* other, while g2 is inside the resource's Lock() waiting for g1 to leave
C32_Witness ==
    /\ rwmu[rMu].readers = {"g1"}
    /\ rwmu["R1"].readers = {"g1"}
    /\ Announced("g2", "R1")
    /\ frame["g2"].op = "AddResourceProxies"

====
